---------------------------- MODULE Spec2Model ----------------------------
(***************************************************************************)
(* Model of the MUD inventory scanner (malfians-vault): the batch run of   *)
(* main.py (roster, selection, pause/cancel, per-character retry loop,     *)
(* session script, export and summary) and the keyed store of              *)
(* data_manager.py.                                                        *)
(*                                                                         *)
(* Strings are sequences of one-character strings; the escape byte \x1b is *)
(* the symbol ESC and the backslash is BSL.                                *)
(***************************************************************************)
EXTENDS Integers, Sequences, FiniteSets, TLC

VARIABLES
    \* ---- store specification (DataManager driven call by call) ----
    store,              \* DataManager: [all_data, character_stats]
    ncalls,             \* add_character_data calls made so far
    call,               \* the last add_character_data call: inputs and prior store
    \* ---- run specification (main.py) ----
    runAsScript,        \* TRUE: started as `python main.py` (module __main__)
    all_characters,     \* load_characters(args.characters)
    args,               \* the parsed command line
    characters,         \* the selected roster
    scan_paused,        \* main.py global
    scan_cancelled,     \* main.py global
    kbAlive,            \* the keyboard_input thread is still reading keys
    pc,                 \* position of the scan loop
    i,                  \* index of the roster entry in main's for loop (1-based)
    delay_k,            \* iterations left of the inter-character pacing delay
    attempt,            \* scan_character's attempt (0-based)
    client,             \* the MUDClient of the attempt in progress
    nclients,           \* MUDClient objects constructed so far
    openConns,          \* ids of the clients whose connection is open
    sent,               \* the send_command calls made on the current client
    scan,               \* locals of scan_character_inventory
    success_count,      \* main's success_count
    failed_characters,  \* main's failed_characters (usernames)
    character_times,    \* length of main's character_times
    attempted,          \* usernames handed to scan_character, in order
    cancelAt,           \* where the scan loop was when cancel was first requested
    faults,             \* environment faults so far
    exported,           \* the files written by the export step
    printedFailed,      \* the failed characters listed by the final summary
    exitStatus          \* "running", "0", "1" or "raised"

storeVars == <<store, ncalls, call>>
flagVars == <<scan_paused, scan_cancelled, kbAlive, cancelAt>>
inputVars == <<runAsScript, all_characters, args>>
loopVars == <<characters, pc, i, delay_k, attempt>>
sessionVars == <<client, nclients, openConns, sent, scan>>
resultVars == <<success_count, failed_characters, character_times, attempted,
                exported, printedFailed, exitStatus>>
vars == <<storeVars, flagVars, inputVars, loopVars, sessionVars, resultVars, faults>>

-----------------------------------------------------------------------------
(* Strings *)

ESC == "ESC"
BSL == "\\"

\* the lower-case letter of each upper-case letter
LowerOf ==
    "A" :> "a" @@ "B" :> "b" @@ "C" :> "c" @@ "D" :> "d" @@ "E" :> "e" @@ "F" :> "f" @@
    "G" :> "g" @@ "H" :> "h" @@ "I" :> "i" @@ "J" :> "j" @@ "K" :> "k" @@ "L" :> "l" @@
    "M" :> "m" @@ "N" :> "n" @@ "O" :> "o" @@ "P" :> "p" @@ "Q" :> "q" @@ "R" :> "r" @@
    "S" :> "s" @@ "T" :> "t" @@ "U" :> "u" @@ "V" :> "v" @@ "W" :> "w" @@ "X" :> "x" @@
    "Y" :> "y" @@ "Z" :> "z"

\* str.lower() on one character
LowerChar(c) == IF c \in DOMAIN LowerOf THEN LowerOf[c] ELSE c

Lower(s) == [k \in 1..Len(s) |-> LowerChar(s[k])]

\* needle in hay
Contains(hay, needle) ==
    \E k \in 0..(Len(hay) - Len(needle)) :
        \A j \in 1..Len(needle) : hay[k + j] = needle[j]

RECURSIVE LStrip(_)
LStrip(s) == IF s # <<>> /\ Head(s) = " " THEN LStrip(Tail(s)) ELSE s

RECURSIVE RStrip(_)
RStrip(s) ==
    IF s # <<>> /\ s[Len(s)] = " " THEN RStrip(SubSeq(s, 1, Len(s) - 1)) ELSE s

\* str.strip()
Strip(s) == RStrip(LStrip(s))

Digits == {"0", "1", "2", "3", "4", "5", "6", "7", "8", "9"}

\* re.search(r'[\x1b\\].*?m', s)
HasAnsi(s) ==
    \E a \in 1..Len(s) : \E b \in (a + 1)..Len(s) :
        s[a] \in {ESC, BSL} /\ s[b] = "m"

\* length of the match of  [0-9;]*m  at the head of s, 0 when there is none
RECURSIVE ParamsThenM(_)
ParamsThenM(s) ==
    IF s = <<>> THEN 0
    ELSE IF Head(s) = "m" THEN 1
    ELSE IF Head(s) \in Digits \cup {";"}
         THEN LET r == ParamsThenM(Tail(s)) IN IF r = 0 THEN 0 ELSE r + 1
         ELSE 0

\* length of the match of prefix [0-9;]*m at the head of s, 0 when there is none
MatchAt(prefix, s) ==
    IF Len(s) > Len(prefix) /\ SubSeq(s, 1, Len(prefix)) = prefix
    THEN LET r == ParamsThenM(SubSeq(s, Len(prefix) + 1, Len(s)))
         IN IF r = 0 THEN 0 ELSE Len(prefix) + r
    ELSE 0

\* re.sub(prefix [0-9;]*m, '', s)
RECURSIVE SubPattern(_, _)
SubPattern(prefix, s) ==
    IF s = <<>> THEN <<>>
    ELSE LET n == MatchAt(prefix, s)
         IN IF n > 0 THEN SubPattern(prefix, SubSeq(s, n + 1, Len(s)))
            ELSE <<Head(s)>> \o SubPattern(prefix, Tail(s))

\* re.sub(r'\x1b\[[0-9;]*m', '', s)
SubAnsi(s) == SubPattern(<<ESC, "[">>, s)

\* re.sub(r'\\x1b\[[0-9;]*m', '', s)
SubLiteralAnsi(s) == SubPattern(<<BSL, "x", "1", "b", "[">>, s)

-----------------------------------------------------------------------------
(* DataManager (data_manager.py) *)

\* An item record is [character, item_name, scan_time]; a stat record is
\* [character, scan] where scan stands for the other columns of the record.
\* A char_stats argument is a sequence of at most one stat record: <<>> is
\* None or the empty dict.

NameLimit == 50

Str_house == <<"_", "h", "o", "u", "s", "e">>
Str_House == <<"_", "H", "o", "u", "s", "e">>

normalize_character_name(name) == IF name = <<>> THEN name ELSE Strip(name)

\* '_house' in name.lower() or '_House' in name
IsHouseName(name) == Contains(Lower(name), Str_house) \/ Contains(name, Str_House)

SetCharacter(items, name) ==
    [k \in 1..Len(items) |-> [items[k] EXCEPT !.character = name]]

\* the two re.sub calls and the strip of the recovery pass
RecoverName(original_name) == Strip(SubLiteralAnsi(SubAnsi(original_name)))

Recoverable(clean_name) == clean_name # <<>> /\ Len(clean_name) < NameLimit

\* the batch is dropped: a corrupted name that cannot be recovered
Discarded(character_data) ==
    /\ character_data # <<>>
    /\ HasAnsi(character_data[1].character)
    /\ ~Recoverable(RecoverName(character_data[1].character))

\* the items of the batch as they are stored
StoredItems(character_data) ==
    LET first == character_data[1].character
        corrupted == HasAnsi(first)
        original_name == IF corrupted THEN RecoverName(first) ELSE first
        data1 == IF corrupted THEN SetCharacter(character_data, original_name)
                 ELSE character_data
    IN IF ~IsHouseName(original_name)
       THEN SetCharacter(data1, normalize_character_name(original_name))
       ELSE data1

\* the name under which the old items of the character are removed
RemovalName(character_data) ==
    LET first == character_data[1].character
        original_name == IF HasAnsi(first) THEN RecoverName(first) ELSE first
    IN IF ~IsHouseName(original_name)
       THEN normalize_character_name(original_name)
       ELSE original_name

KeepOthers(all_data, char_name_exact) ==
    SelectSeq(all_data, LAMBDA item : item.character # char_name_exact)

\* the inventory half of add_character_data
AddItems(all_data, character_data) ==
    IF character_data # <<>>
    THEN KeepOthers(all_data, RemovalName(character_data)) \o StoredItems(character_data)
    ELSE all_data

\* the name a stat record is stored under
StatName(original_char_name) ==
    IF IsHouseName(original_char_name) THEN original_char_name
    ELSE normalize_character_name(original_char_name)

\* the comparison without lower-casing the stored name
SameKey_NoLower(existing_char, char_name) == existing_char = char_name

SameKey(existing_char, char_name) == Lower(existing_char) = char_name

\* the first index whose record has the key char_name, 0 when there is none
FindExisting(character_stats, char_name) ==
    LET hits == {k \in 1..Len(character_stats) :
                    SameKey(character_stats[k].character, char_name)}
    IN IF hits = {} THEN 0 ELSE CHOOSE k \in hits : \A j \in hits : k <= j

\* the stats half of add_character_data
AddStats(character_stats, char_stats) ==
    IF char_stats # <<>>
    THEN LET normalized_name == StatName(char_stats[1].character)
             rec == [char_stats[1] EXCEPT !.character = normalized_name]
             existing_index == FindExisting(character_stats, Lower(normalized_name))
         IN IF existing_index # 0
            THEN [character_stats EXCEPT ![existing_index] = rec]
            ELSE Append(character_stats, rec)
    ELSE character_stats

add_character_data(dm, character_data, char_stats) ==
    IF Discarded(character_data) THEN dm
    ELSE [all_data |-> AddItems(dm.all_data, character_data),
          character_stats |-> AddStats(dm.character_stats, char_stats)]

-----------------------------------------------------------------------------
(* MUDClient (mud_client.py) and the locals of a scan *)

\* no client constructed yet
NoClient == [id |-> 0, owner |-> 0, nth |-> 0, connected |-> FALSE, connects |-> 0,
             logins |-> 0]

\* MUDClient.__init__ for the nth attempt of roster entry owner
NewClient(id, owner, nth) ==
    [id |-> id, owner |-> owner, nth |-> nth, connected |-> FALSE, connects |-> 0,
     logins |-> 0]

\* the locals of scan_character_inventory and of the house walk
ScanIdle == [all_items |-> <<>>, detected |-> <<>>, k |-> 0, needs |-> <<"-">>,
             house_items |-> <<>>, room |-> 0, step |-> 0]

-----------------------------------------------------------------------------
(* The store driven call by call: inputs of add_character_data *)

MaxCalls == 2
MaxItems == 2

Ka == <<"K", "a">>
KA == <<"K", "A">>
ka == <<"k", "a">>
KaPadded == <<" ", "K", "a", " ">>
Bo == <<"B", "o">>
Ka_House == Ka \o Str_House
\* "\x1b[1mKa": a colour sequence in front of the name
AnsiKa == <<ESC, "[", "1", "m">> \o Ka
\* the same with the escape byte written out as the four characters \x1b
LiteralAnsiKa == <<BSL, "x", "1", "b", "[", "0", "m">> \o Ka
\* nothing but a colour sequence
OnlyAnsi == <<ESC, "[", "0", "m">>
\* "\x1b[KKam": an erase-line sequence, which is no colour sequence
EraseLineKam == <<ESC, "[", "K", "K", "a", "m">>
LongName(n) == <<ESC, "[", "m">> \o [k \in 1..n |-> "a"]

CleanNames == {Ka, KA, ka, KaPadded, Bo, Ka_House}
CorruptNames == {AnsiKa, LiteralAnsiKa, OnlyAnsi, EraseLineKam,
                 LongName(NameLimit), LongName(NameLimit - 1)}

ItemNames == <<"sword", "shield", "potion", "rope">>

Items(name, n, t) ==
    [k \in 1..n |-> [character |-> name, location |-> "inventory",
                     item_name |-> ItemNames[k], scan_time |-> t]]

Warrior == <<"W", "a", "r">>

Stat(name, t) == [character |-> name, class |-> Warrior, scan |-> t]

\* what a scan hands over: the items and the stat record carry the same name
Batches(t) ==
    {[items |-> Items(name, n, t),
      stats |-> IF withStats THEN <<Stat(name, t)>> ELSE <<>>] :
        name \in CleanNames, n \in 0..MaxItems, withStats \in BOOLEAN}
    \cup
    {[items |-> Items(name, n, t), stats |-> <<Stat(name, t)>>] :
        name \in CorruptNames, n \in 0..1}

EmptyStore == [all_data |-> <<>>, character_stats |-> <<>>]

\* stores as _load_existing_data leaves them: one stat record per lower-cased name
InitStores ==
    { EmptyStore,
      [all_data |-> Items(Ka, 2, 0), character_stats |-> <<Stat(Ka, 0)>>],
      [all_data |-> Items(ka, 1, 0), character_stats |-> <<Stat(ka, 0)>>],
      [all_data |-> Items(Bo, 1, 0) \o Items(Ka, 1, 0),
       character_stats |-> <<Stat(Bo, 0), Stat(Ka, 0)>>],
      [all_data |-> Items(Ka, 1, 0) \o Items(Ka_House, 1, 0),
       character_stats |-> <<Stat(Ka, 0), Stat(Ka_House, 0)>>] }

\* no cancel requested yet
NoCancel == [i |-> 0, scanning |-> FALSE]

\* nothing written yet
NoExport == [written |-> FALSE, items |-> <<>>, stats |-> <<>>]

NoCall == [done |-> FALSE, items |-> <<>>, stats |-> <<>>, before |-> EmptyStore]

\* the run's variables while only the store is driven
RunIdle ==
    /\ runAsScript = FALSE /\ all_characters = <<>>
    /\ args = [list |-> FALSE, filter |-> "none", value |-> <<>>]
    /\ characters = <<>> /\ scan_paused = FALSE /\ scan_cancelled = FALSE
    /\ kbAlive = FALSE /\ pc = "store" /\ i = 0 /\ delay_k = 0 /\ attempt = 0
    /\ client = NoClient /\ nclients = 0 /\ openConns = {} /\ sent = <<>>
    /\ scan = ScanIdle /\ success_count = 0
    /\ failed_characters = <<>> /\ character_times = 0 /\ attempted = <<>>
    /\ cancelAt = NoCancel /\ faults = 0 /\ exported = NoExport /\ printedFailed = <<>>
    /\ exitStatus = "running"

InitStore ==
    /\ store \in InitStores
    /\ ncalls = 0
    /\ call = NoCall
    /\ RunIdle

AddCall ==
    /\ pc = "store"
    /\ ncalls < MaxCalls
    /\ \E b \in Batches(ncalls + 1) :
        /\ store' = add_character_data(store, b.items, b.stats)
        /\ call' = [done |-> TRUE, items |-> b.items, stats |-> b.stats, before |-> store]
    /\ ncalls' = ncalls + 1
    /\ UNCHANGED <<flagVars, inputVars, loopVars, sessionVars, resultVars, faults>>

NextStore == AddCall

SpecStore == InitStore /\ [][NextStore]_vars

-----------------------------------------------------------------------------
(* Claims about the store (SpecStore) *)

ItemsOf(all_data, name) == SelectSeq(all_data, LAMBDA item : item.character = name)

StatIndexes(character_stats, name) ==
    {k \in 1..Len(character_stats) : character_stats[k].character = name}

\* the last call handed over a scan of a character the store already knew,
\* under the plain name the store knows it by
IsRescan ==
    /\ call.done
    /\ call.stats # <<>>
    /\ ~HasAnsi(call.stats[1].character)
    /\ StatName(call.stats[1].character) = call.stats[1].character
    /\ StatIndexes(call.before.character_stats, call.stats[1].character) # {}

\* C7: after add_character_data is called with a rescan of character X, the
\* store's items for X are exactly the items of the new scan, also when the
\* new scan found no item, and the store holds exactly one stat record for X.
C7_RescanReplaces ==
    IsRescan =>
        LET X == call.stats[1].character
        IN /\ ItemsOf(store.all_data, X) = call.items
           /\ Cardinality(StatIndexes(store.character_stats, X)) = 1

\* C7 restricted to rescans that found at least one item
C7_NonEmptyRescanReplaces ==
    (IsRescan /\ call.items # <<>>) =>
        LET X == call.stats[1].character
        IN /\ ItemsOf(store.all_data, X) = call.items
           /\ Cardinality(StatIndexes(store.character_stats, X)) = 1

C7_EmptyRescanSeen ==
    /\ IsRescan
    /\ call.items = <<>>
    /\ ItemsOf(call.before.all_data, call.stats[1].character) # <<>>

DistinctKeys(character_stats) ==
    \A j, k \in 1..Len(character_stats) :
        j # k => Lower(character_stats[j].character) # Lower(character_stats[k].character)

\* C8: the store never holds two stat records whose names are equal ignoring
\* case; a call for a name already present, in whatever case, overwrites that
\* record in place and leaves every other record where it was.
C8_OneStatPerName ==
    /\ DistinctKeys(store.character_stats)
    /\ (call.done /\ call.stats # <<>> /\ ~Discarded(call.items)) =>
        LET before == call.before.character_stats
            after == store.character_stats
            name == StatName(call.stats[1].character)
        IN \A k \in 1..Len(before) :
              IF Lower(before[k].character) = Lower(name)
              THEN /\ Len(after) = Len(before)
                   /\ after[k] = Stat(name, call.stats[1].scan)
              ELSE after[k] = before[k]

\* a record was overwritten by a call that spelt the name in another case
C8_OverwrittenInOtherCase ==
    /\ call.done /\ call.stats # <<>> /\ ~Discarded(call.items)
    /\ \E k \in 1..Len(call.before.character_stats) :
          /\ call.before.character_stats[k].character # StatName(call.stats[1].character)
          /\ Lower(call.before.character_stats[k].character)
                = Lower(StatName(call.stats[1].character))
          /\ store.character_stats[k].scan = call.stats[1].scan
          /\ call.before.character_stats[k].scan # call.stats[1].scan

\* C9: no item or stat record of the store carries a name with escape-sequence
\* remnants; a batch with a corrupted name is stored whole under the recovered
\* name, or not at all when the recovered name is empty or 50 characters or more.
C9_NoCorruptIdentity ==
    /\ \A k \in 1..Len(store.all_data) : ~HasAnsi(store.all_data[k].character)
    /\ \A k \in 1..Len(store.character_stats) : ~HasAnsi(store.character_stats[k].character)
    /\ (call.done /\ call.items # <<>> /\ HasAnsi(call.items[1].character)) =>
        LET clean == RecoverName(call.items[1].character)
        IN IF clean = <<>> \/ Len(clean) >= NameLimit
           THEN store = call.before
           ELSE /\ ItemsOf(store.all_data, clean) = SetCharacter(call.items, clean)
                /\ call.stats # <<>> =>
                      \E k \in 1..Len(store.character_stats) :
                          store.character_stats[k] = Stat(clean, call.stats[1].scan)

\* the part of C9 that the code keeps: an unrecoverable batch changes nothing
C9_UnrecoverableBatchDropped ==
    (call.done /\ Discarded(call.items)) => store = call.before

-----------------------------------------------------------------------------
(* The batch run (main.py): inputs *)

MAX_RETRIES == 3
\* int(RATE_LIMIT_DELAY * 2) half-second naps between two characters
RateLimitTicks == 6
\* environment faults (refused connection, failed login, exception, failed
\* movement) in one run
MaxFaults == 3

Aa == <<"A", "a">>
Bb == <<"B", "b">>
Cc == <<"C", "c">>
Dd == <<"D", "d">>
Ee == <<"E", "e">>

Entry(username, password) == [username |-> username, password |-> password]

\* characters.csv: five characters
Roster == <<Entry(Aa, "pw1"), Entry(Bb, "pw2"), Entry(Cc, "pw3"),
            Entry(Dd, "pw4"), Entry(Ee, "pw5")>>

\* groups.csv, keyed by the lower-cased group name
GroupKeys == {<<"d", "u", "o">>}
Groups(key) == <<Aa, Bb>>

Mage == <<"M", "a", "g", "e">>

NoFilter == [list |-> FALSE, filter |-> "none", value |-> <<>>]

\* the command lines tried
ArgsSet ==
    { NoFilter,
      [list |-> TRUE, filter |-> "none", value |-> <<>>],
      [list |-> FALSE, filter |-> "single", value |-> << <<"c", "c">> >>],
      [list |-> FALSE, filter |-> "single", value |-> <<Aa>>],
      [list |-> FALSE, filter |-> "single", value |-> << <<"z", "z">> >>],
      [list |-> FALSE, filter |-> "group", value |-> <<"D", "u", "o">>],
      [list |-> FALSE, filter |-> "group", value |-> <<"z", "z">>],
      [list |-> FALSE, filter |-> "class", value |-> Warrior],
      [list |-> FALSE, filter |-> "class", value |-> Mage],
      [list |-> FALSE, filter |-> "range", value |-> <<"span", 2, 3>>],
      [list |-> FALSE, filter |-> "range", value |-> <<"index", 9, 9>>],
      [list |-> FALSE, filter |-> "range", value |-> <<"invalid", 0, 0>>] }

\* the files of an earlier run, as DataManager() loads them
LoadedStores ==
    { EmptyStore,
      [all_data |-> Items(Cc, 2, 0), character_stats |-> <<Stat(Cc, 0), Stat(Aa, 0)>>] }

filter_characters_by_names(chars, names) ==
    LET target_names == {Lower(Strip(names[k])) : k \in 1..Len(names)}
    IN SelectSeq(chars, LAMBDA e : Lower(e.username) \in target_names)

filter_characters_by_group(chars, group_name) ==
    IF Lower(group_name) \notin GroupKeys THEN <<>>
    ELSE filter_characters_by_names(chars, Groups(Lower(group_name)))

filter_characters_by_class(chars, char_class, character_stats) ==
    LET Matches(e) ==
            LET hits == {k \in 1..Len(character_stats) :
                            Lower(character_stats[k].character) = Lower(e.username)}
            IN /\ hits # {}
               /\ LET first == CHOOSE k \in hits : \A j \in hits : k <= j
                  IN Lower(character_stats[first].class) = Lower(char_class)
    IN SelectSeq(chars, Matches)

Max(a, b) == IF a >= b THEN a ELSE b
Min(a, b) == IF a <= b THEN a ELSE b

\* chars[start:end] of Python, start and end counted from 0
Slice(chars, start, end) ==
    IF end <= start THEN <<>> ELSE SubSeq(chars, start + 1, end)

filter_characters_by_range(chars, range) ==
    CASE range[1] = "span" ->
            Slice(chars, Max(0, range[2] - 1), Min(Len(chars), range[3]))
      [] range[1] = "index" ->
            IF 0 <= range[2] - 1 /\ range[2] - 1 < Len(chars)
            THEN <<chars[range[2]]>> ELSE <<>>
      [] OTHER -> <<>>

\* the selection main applies to the roster
Select(chars, a, character_stats) ==
    CASE a.filter = "single" -> filter_characters_by_names(chars, a.value)
      [] a.filter = "group" -> filter_characters_by_group(chars, a.value)
      [] a.filter = "class" -> filter_characters_by_class(chars, a.value, character_stats)
      [] a.filter = "range" -> filter_characters_by_range(chars, a.value)
      [] OTHER -> chars

-----------------------------------------------------------------------------
(* ContainerManager (container_manager.py) *)

StartsWith(s, prefix) ==
    Len(s) >= Len(prefix) /\ SubSeq(s, 1, Len(prefix)) = prefix

\* the index of the first c in s, Len(s) + 1 when there is none
IndexOf(s, c) ==
    LET at == {k \in 1..Len(s) : s[k] = c}
    IN IF at = {} THEN Len(s) + 1 ELSE CHOOSE k \in at : \A j \in at : k <= j

\* str.split()
RECURSIVE Words(_)
Words(s) ==
    LET t == LStrip(s)
    IN IF t = <<>> THEN <<>>
       ELSE LET n == IndexOf(t, " ")
            IN <<SubSeq(t, 1, n - 1)>> \o Words(SubSeq(t, n + 1, Len(t)))

\* ' '.join(words)
RECURSIVE JoinSpace(_)
JoinSpace(words) ==
    IF words = <<>> THEN <<>>
    ELSE IF Len(words) = 1 THEN words[1]
    ELSE words[1] \o <<" ">> \o JoinSpace(Tail(words))

\* re.sub(r'^(\([^)]+\)\s*)+', '', s): the parenthesized groups at the head
RECURSIVE DropFlags(_)
DropFlags(s) ==
    IF s # <<>> /\ Head(s) = "(" /\ IndexOf(s, ")") >= 3 /\ IndexOf(s, ")") <= Len(s)
    THEN DropFlags(LStrip(SubSeq(s, IndexOf(s, ")") + 1, Len(s))))
    ELSE s

_strip_item_flags(item_name) ==
    Strip(DropFlags(JoinSpace(Words(SubAnsi(item_name)))))

\* the value None of a lookup
None == <<"None">>

\* the first entry of the table whose lower-cased key is normalized
Lookup(container_mappings, normalized) ==
    LET hits == {k \in 1..Len(container_mappings) :
                    Lower(container_mappings[k].key) = normalized}
    IN IF hits = {} THEN None
       ELSE container_mappings[CHOOSE k \in hits : \A j \in hits : k <= j].keyword

Articles == << <<"a", " ">>, <<"a", "n", " ">>, <<"t", "h", "e", " ">> >>

\* the loop over the articles put in front of the item name
RECURSIVE LookupWithArticle(_, _, _)
LookupWithArticle(container_mappings, item_name, a) ==
    IF a > Len(Articles) THEN None
    ELSE LET found == Lookup(container_mappings, Lower(Articles[a] \o item_name))
         IN IF found # None THEN found
            ELSE LookupWithArticle(container_mappings, item_name, a + 1)

\* the item name with its leading article cut off
WithoutArticle(item_name, item_normalized) ==
    IF StartsWith(item_normalized, Articles[1])
    THEN Strip(SubSeq(item_name, 3, Len(item_name)))
    ELSE IF StartsWith(item_normalized, Articles[2])
    THEN Strip(SubSeq(item_name, 4, Len(item_name)))
    ELSE Strip(SubSeq(item_name, 5, Len(item_name)))

\* the last resort: a key inside the item name or the item name inside a key
SubstringMatch(container_mappings, item_normalized) ==
    LET hits == {k \in 1..Len(container_mappings) :
                    LET mapping_normalized == Lower(container_mappings[k].key)
                    IN /\ \/ Contains(item_normalized, mapping_normalized)
                          \/ Contains(mapping_normalized, item_normalized)
                       /\ \/ Len(Words(mapping_normalized)) > 1
                          \/ Len(Words(item_normalized)) = 1}
    IN IF hits = {} THEN None
       ELSE container_mappings[CHOOSE k \in hits : \A j \in hits : k <= j].keyword

\* the lookup of the name as it is, nothing else tried
_find_container_mapping_AsIs(container_mappings, item_name) ==
    Lookup(container_mappings, item_name)

_find_container_mapping(container_mappings, item_name) ==
    LET item_normalized == Strip(Lower(item_name))
        exact == Lookup(container_mappings, item_normalized)
        added == LookupWithArticle(container_mappings, item_name, 1)
        removed ==
            IF \E a \in 1..Len(Articles) : StartsWith(item_normalized, Articles[a])
            THEN Lookup(container_mappings,
                        Lower(WithoutArticle(item_name, item_normalized)))
            ELSE None
    IN IF exact # None THEN exact
       ELSE IF added # None THEN added
       ELSE IF removed # None THEN removed
       ELSE SubstringMatch(container_mappings, item_normalized)

container_indicators ==
    { <<"b", "a", "s", "k", "e", "t">>,
       <<"p", "o", "u", "c", "h">>,
       <<"b", "a", "g">>,
       <<"s", "a", "c", "k">>,
       <<"c", "h", "e", "s", "t">>,
       <<"c", "a", "s", "e">>,
       <<"c", "o", "n", "t", "a", "i", "n", "e", "r">>,
       <<"b", "o", "x">>,
       <<"c", "r", "a", "t", "e">>,
       <<"b", "a", "r", "r", "e", "l">>,
       <<"p", "a", "c", "k">>,
       <<"s", "a", "t", "c", "h", "e", "l">>,
       <<"k", "n", "a", "p", "s", "a", "c", "k">>,
       <<"b", "a", "c", "k", "p", "a", "c", "k">>,
       <<"r", "i", "f", "t">>,
       <<"p", "o", "r", "t", "a", "l">>,
       <<"v", "o", "i", "d">>,
       <<"p", "o", "c", "k", "e", "t">>,
       <<"q", "u", "i", "v", "e", "r">>,
       <<"s", "h", "e", "a", "t", "h">>,
       <<"s", "c", "a", "b", "b", "a", "r", "d">> }

_might_be_container(item_name) ==
    \E indicator \in container_indicators : Contains(Lower(item_name), indicator)

\* one turn that appends the keyword whether it is in the list or not
DetectOne_Repeated(container_mappings, acc, item_name) ==
    LET container_keyword ==
            _find_container_mapping(container_mappings, _strip_item_flags(item_name))
    IN IF container_keyword # None /\ container_keyword # <<>>
       THEN [acc EXCEPT !.detected = Append(@, container_keyword)]
       ELSE acc

\* one turn of the loop of detect_containers_in_inventory
DetectOne(container_mappings, acc, item_name) ==
    LET clean_item_name == _strip_item_flags(item_name)
        container_keyword == _find_container_mapping(container_mappings, clean_item_name)
        In(seq, x) == \E k \in 1..Len(seq) : seq[k] = x
    IN IF container_keyword # None /\ container_keyword # <<>>
       THEN IF In(acc.detected, container_keyword) THEN acc
            ELSE [acc EXCEPT !.detected = Append(@, container_keyword)]
       ELSE IF _might_be_container(clean_item_name) /\ ~In(acc.unknown, clean_item_name)
            THEN [acc EXCEPT !.unknown = Append(@, clean_item_name)]
            ELSE acc

\* detect_containers_in_inventory over the names of the inventory items
RECURSIVE detect_containers_in_inventory(_, _)
detect_containers_in_inventory(container_mappings, item_names) ==
    IF item_names = <<>> THEN [detected |-> <<>>, unknown |-> <<>>]
    ELSE DetectOne(container_mappings,
                   detect_containers_in_inventory(container_mappings,
                        SubSeq(item_names, 1, Len(item_names) - 1)),
                   item_names[Len(item_names)])


\* str.split(sep) for a separator of one character
RECURSIVE Split(_, _)
Split(s, sep) ==
    LET n == IndexOf(s, sep)
    IN IF n > Len(s) THEN <<s>>
       ELSE <<SubSeq(s, 1, n - 1)>> \o Split(SubSeq(s, n + 1, Len(s)), sep)

\* sep.join(parts)
RECURSIVE Join(_, _)
Join(parts, sep) ==
    IF parts = <<>> THEN <<>>
    ELSE IF Len(parts) = 1 THEN parts[1]
    ELSE parts[1] \o <<sep>> \o Join(Tail(parts), sep)

-----------------------------------------------------------------------------
(* The line parsers (inventory_scanner.py, house_scanner_v2.py) *)

EndsWith(s, suffix) ==
    Len(s) >= Len(suffix) /\ SubSeq(s, Len(s) - Len(suffix) + 1, Len(s)) = suffix

\* the number of digits that end at position k of s
RECURSIVE DigitsBefore(_, _)
DigitsBefore(s, k) ==
    IF k >= 1 /\ s[k] \in Digits THEN 1 + DigitsBefore(s, k - 1) ELSE 0

NoMatch == [start |-> 0, quantity |-> <<>>]

\* a search that finds no quantity
QuantityMatch_Never(line) == NoMatch

\* re.search(r'\((\d+)\)\s*$', line): the position of the '(' and group 1
QuantityMatch(line) ==
    LET t == RStrip(line)
        n == Len(t)
        d == DigitsBefore(t, n - 1)
    IN IF n >= 3 /\ t[n] = ")" /\ d >= 1 /\ n - 1 - d >= 1 /\ t[n - 1 - d] = "("
       THEN [start |-> n - 1 - d, quantity |-> SubSeq(t, n - d, n - 1)]
       ELSE NoMatch

\* the article cut from the head of a stripped name, then strip again
DropArticle(name) ==
    IF StartsWith(Lower(name), Articles[1]) THEN Strip(SubSeq(name, 3, Len(name)))
    ELSE IF StartsWith(Lower(name), Articles[2]) THEN Strip(SubSeq(name, 4, Len(name)))
    ELSE IF StartsWith(Lower(name), Articles[3]) THEN Strip(SubSeq(name, 5, Len(name)))
    ELSE Strip(name)

clean_item_name(name) == DropArticle(Strip(name))

clean_house_item_name(name) == DropArticle(Strip(SubLiteralAnsi(SubAnsi(name))))

\* the lines that stand for an empty container
NothingWords == { <<"n", "o", "t", "h", "i", "n", "g">>,
                  <<"n", "o", "n", "e">>,
                  <<"e", "m", "p", "t", "y">> }

\* quantity and name of a line: the part the two line parsers share
NameAndQuantity(line) ==
    LET m == QuantityMatch(line)
    IN [quantity |-> IF m.start > 0 THEN m.quantity ELSE <<"1">>,
        item_name |-> IF m.start > 0 THEN Strip(SubSeq(line, 1, m.start - 1))
                      ELSE line]

\* the record built whatever the cleaned name is
parse_item_line_KeepEmpty(current_character, line, location, now) ==
    LET f == [NameAndQuantity(line) EXCEPT !.item_name = clean_item_name(@)]
    IN << [character |-> current_character, location |-> location,
           item_name |-> f.item_name, quantity |-> f.quantity,
           scan_time |-> now, raw_line |-> line] >>

\* InventoryScanner.parse_item_line: <<>> is None, now is datetime.now()
parse_item_line(current_character, line, location, now) ==
    IF line = <<>> \/ Lower(line) \in NothingWords THEN <<>>
    ELSE LET f == [NameAndQuantity(line) EXCEPT !.item_name = clean_item_name(@)]
         IN IF f.item_name = <<>> THEN <<>>
            ELSE << [character |-> current_character, location |-> location,
                     item_name |-> f.item_name, quantity |-> f.quantity,
                     scan_time |-> now, raw_line |-> line] >>

StatusFlags == { <<"H", "T", "Y">>, <<"H", "S", "Y">>, <<"H", "Y">>, <<"T", "Y">>, <<"S", "Y">>,
                 <<"H", "T", "Y">> \o <<BSL>>, <<"H", "S", "Y">> \o <<BSL>>, <<"H", "Y">> \o <<BSL>> }

\* re.match(r'^[\s\x1b\[\]0-9;m\\]*$', s)
OnlyAnsiChars(s) ==
    \A k \in 1..Len(s) : s[k] \in Digits \cup {" ", ESC, "[", "]", ";", "m", BSL}

\* the lines parse_house_item_line takes for a prompt or for colour codes
HouseLineSkipped(line) ==
    LET clean_line == Strip(SubLiteralAnsi(SubAnsi(line)))
    IN \/ /\ StartsWith(clean_line, <<"[">>)
          /\ Contains(clean_line, <<"/">>)
          /\ \/ Contains(Lower(clean_line), <<"h", "p">>)
             \/ Contains(Lower(clean_line), <<"m", "n">>)
       \/ \E flag \in StatusFlags : EndsWith(clean_line, flag)
       \/ clean_line = <<>>
       \/ OnlyAnsiChars(clean_line)

\* HouseScannerV2.parse_house_item_line
parse_house_item_line(current_character, house_name, line, location, now) ==
    IF line = <<>> \/ Lower(line) \in NothingWords THEN <<>>
    ELSE IF HouseLineSkipped(line) THEN <<>>
    ELSE LET f == [NameAndQuantity(line) EXCEPT !.item_name = clean_house_item_name(@)]
         IN IF f.item_name = <<>> THEN <<>>
            ELSE << [character |-> current_character \o Str_House, location |-> location,
                     item_name |-> f.item_name, quantity |-> f.quantity,
                     scan_time |-> now, raw_line |-> line,
                     house_owner |-> current_character, house_name |-> house_name] >>

\* the loop of parse_inventory_output over the lines of the response
RECURSIVE InventoryLoop(_, _, _, _, _, _)
InventoryLoop(current_character, lines, found_header, seen_items, items, now) ==
    IF lines = <<>> THEN items
    ELSE LET line == Strip(Head(lines))
             rest == Tail(lines)
         IN IF line = <<>> \/ (StartsWith(line, <<"[">>) /\ EndsWith(line, <<"]">>))
            THEN InventoryLoop(current_character, rest, found_header, seen_items, items, now)
            ELSE IF /\ Contains(Lower(line), <<"y", "o", "u", " ", "a", "r", "e", " ", "c", "a", "r", "r", "y", "i", "n", "g">>)
                    /\ \/ Contains(Lower(line), <<"i", "t", "e", "m", "s">>)
                       \/ Contains(Lower(line), <<"i", "t", "e", "m">>)
            THEN InventoryLoop(current_character, rest, TRUE, seen_items, items, now)
            ELSE IF \/ EndsWith(line, <<"H", "T", "Y", BSL>>)
                    \/ EndsWith(line, <<">">>)
                    \/ StartsWith(line, <<"[">>) /\ Contains(line, <<"h", "p">>)
            THEN items
            ELSE IF found_header /\ line \notin seen_items
            THEN InventoryLoop(current_character, rest, found_header,
                               seen_items \cup {line},
                               items \o parse_item_line(current_character, line,
                                                        "inventory", now), now)
            ELSE InventoryLoop(current_character, rest, found_header, seen_items, items, now)

\* InventoryScanner.parse_inventory_output
parse_inventory_output(current_character, response, now) ==
    InventoryLoop(current_character, Split(response, "\n"), FALSE, {}, <<>>, now)

\* the words of an empty slot: item_text.lower() in [...]
EmptyMarkers == NothingWords \cup { <<"[", "n", "o", "t", "h", "i", "n", "g", "]">> }

\* re.match(r'^<(.+?)>\s*(.+)$', line) on a stripped line: the position of
\* the '>' that closes group 1, 0 when the line does not match
SlotEnd(line) ==
    LET at == {k \in 3..(Len(line) - 1) : line[k] = ">"}
    IN IF line = <<>> \/ Head(line) # "<" \/ at = {} THEN 0
       ELSE CHOOSE k \in at : \A j \in at : k <= j

\* the loop over the lines of the answer to 'garb'
RECURSIVE EquipmentLoop(_, _, _, _, _, _, _)
EquipmentLoop(current_character, lines, found_header, seen_items, items, empty_slots, now) ==
    IF lines = <<>> THEN [items |-> items, empty_equipment_slots |-> empty_slots]
    ELSE LET line == Strip(Head(lines))
             rest == Tail(lines)
             slot == SubSeq(line, 2, SlotEnd(line) - 1)
             item_text == Strip(SubSeq(line, SlotEnd(line) + 1, Len(line)))
         IN IF line = <<>> \/ (StartsWith(line, <<"[">>) /\ EndsWith(line, <<"]">>))
            THEN EquipmentLoop(current_character, rest, found_header, seen_items, items,
                               empty_slots, now)
            ELSE IF Contains(Lower(line), <<"y", "o", "u", " ", "a", "r", "e", " ", "u", "s", "i", "n", "g", ":">>)
            THEN EquipmentLoop(current_character, rest, TRUE, seen_items, items,
                               empty_slots, now)
            ELSE IF \/ EndsWith(line, <<"H", "T", "Y", BSL>>)
                    \/ EndsWith(line, <<">">>)
                    \/ StartsWith(line, <<"[">>) /\ Contains(line, <<"h", "p">>)
            THEN [items |-> items, empty_equipment_slots |-> empty_slots]
            ELSE IF found_header /\ SlotEnd(line) > 0
            THEN IF Lower(item_text) \in EmptyMarkers
                 THEN EquipmentLoop(current_character, rest, found_header, seen_items, items,
                                    Append(empty_slots, slot), now)
                 ELSE IF slot \o <<":">> \o item_text \notin seen_items
                 THEN EquipmentLoop(current_character, rest, found_header,
                                    seen_items \cup {slot \o <<":">> \o item_text},
                                    items \o parse_item_line(current_character, item_text,
                                                             <<"e", "q", "u", "i", "p", "p", "e", "d", ":">> \o slot, now),
                                    empty_slots, now)
                 ELSE EquipmentLoop(current_character, rest, found_header, seen_items, items,
                                    empty_slots, now)
            ELSE EquipmentLoop(current_character, rest, found_header, seen_items, items,
                               empty_slots, now)

\* InventoryScanner.parse_equipment_output: the records returned and the
\* slots kept in self.empty_equipment_slots
parse_equipment_output(current_character, response, now) ==
    EquipmentLoop(current_character, Split(response, "\n"), FALSE, {}, <<>>, <<>>, now)

\* the short names of the slots, generate_needs_list
slot_mapping ==
    <<"u", "s", "e", "d", " ", "a", "s", " ", "l", "i", "g", "h", "t">> :> <<"l", "i", "g", "h", "t">> @@
    <<"w", "o", "r", "n", " ", "o", "n", " ", "f", "i", "n", "g", "e", "r">> :> <<"r", "i", "n", "g">> @@
    <<"w", "o", "r", "n", " ", "a", "r", "o", "u", "n", "d", " ", "n", "e", "c", "k">> :> <<"n", "e", "c", "k">> @@
    <<"w", "o", "r", "n", " ", "o", "n", " ", "b", "o", "d", "y">> :> <<"b", "o", "d", "y">> @@
    <<"w", "o", "r", "n", " ", "o", "n", " ", "h", "e", "a", "d">> :> <<"h", "e", "a", "d">> @@
    <<"w", "o", "r", "n", " ", "o", "n", " ", "l", "e", "g", "s">> :> <<"l", "e", "g", "s">> @@
    <<"w", "o", "r", "n", " ", "o", "n", " ", "f", "e", "e", "t">> :> <<"f", "e", "e", "t">> @@
    <<"w", "o", "r", "n", " ", "o", "n", " ", "h", "a", "n", "d", "s">> :> <<"h", "a", "n", "d", "s">> @@
    <<"w", "o", "r", "n", " ", "o", "n", " ", "a", "r", "m", "s">> :> <<"a", "r", "m", "s">> @@
    <<"w", "o", "r", "n", " ", "a", "b", "o", "u", "t", " ", "b", "o", "d", "y">> :> <<"c", "l", "o", "a", "k">> @@
    <<"w", "o", "r", "n", " ", "a", "b", "o", "u", "t", " ", "w", "a", "i", "s", "t">> :> <<"w", "a", "i", "s", "t">> @@
    <<"w", "o", "r", "n", " ", "a", "r", "o", "u", "n", "d", " ", "w", "r", "i", "s", "t">> :> <<"w", "r", "i", "s", "t">> @@
    <<"w", "i", "e", "l", "d", "e", "d">> :> <<"w", "e", "a", "p", "o", "n">> @@
    <<"d", "u", "a", "l", " ", "w", "i", "e", "l", "d", "e", "d">> :> <<"d", "u", "a", "l">> @@
    <<"w", "o", "r", "n", " ", "a", "s", " ", "s", "h", "i", "e", "l", "d">> :> <<"s", "h", "i", "e", "l", "d">> @@
    <<"h", "e", "l", "d">> :> <<"h", "e", "l", "d">> @@
    <<"w", "o", "r", "n", " ", "o", "n", " ", "e", "a", "r", "s">> :> <<"e", "a", "r", "s">> @@
    <<"w", "o", "r", "n", " ", "o", "n", " ", "e", "y", "e", "s">> :> <<"e", "y", "e", "s">> @@
    <<"w", "o", "r", "n", " ", "o", "n", " ", "b", "a", "c", "k">> :> <<"b", "a", "c", "k">> @@
    <<"w", "o", "r", "n", " ", "o", "v", "e", "r", " ", "f", "a", "c", "e">> :> <<"f", "a", "c", "e">> @@
    <<"w", "o", "r", "n", " ", "a", "r", "o", "u", "n", "d", " ", "a", "n", "k", "l", "e">> :> <<"a", "n", "k", "l", "e">>

\* str.replace(old, '')
RECURSIVE Remove(_, _)
Remove(s, old) ==
    IF Len(s) < Len(old) THEN s
    ELSE IF StartsWith(s, old) THEN Remove(SubSeq(s, Len(old) + 1, Len(s)), old)
    ELSE <<s[1]>> \o Remove(Tail(s), old)

\* the short name of a slot that slot_mapping does not hold
RECURSIVE clean_slot(_, _)
clean_slot(slot, olds) ==
    IF olds = <<>> THEN slot ELSE clean_slot(Remove(slot, Head(olds)), Tail(olds))

\* ', '.join(needs)
RECURSIVE JoinComma(_)
JoinComma(needs) ==
    IF Len(needs) = 1 THEN needs[1]
    ELSE needs[1] \o <<",", " ">> \o JoinComma(Tail(needs))

\* the needs field as parse_character_stats sets it
NoNeeds == <<"-">>

generate_needs_list(empty_equipment_slots) ==
    IF empty_equipment_slots = <<>> THEN NoNeeds
    ELSE JoinComma([k \in 1..Len(empty_equipment_slots) |->
            LET slot == empty_equipment_slots[k]
            IN IF slot \in DOMAIN slot_mapping THEN slot_mapping[slot]
               ELSE clean_slot(slot, << <<"w", "o", "r", "n", " ">>, <<"a", "r", "o", "u", "n", "d", " ">>, <<"a", "b", "o", "u", "t", " ">>, <<"o", "n", " ">>, <<"o", "v", "e", "r", " ">>, <<"a", "s", " ">> >>)])

-----------------------------------------------------------------------------
(* The room parsers (house_scanner_v2.py, house_manager_v2.py) *)
\* [x.strip() for x in parts if x.strip()]
StrippedNonEmpty(parts) ==
    LET stripped == [k \in 1..Len(parts) |-> Strip(parts[k])]
    IN SelectSeq(stripped, LAMBDA x : x # <<>>)

Str_start == <<"s", "t", "a", "r", "t">>

\* the loop over the room entries: name, path and containers of each
\* entry with at least three ':'-separated parts
RoomsOfEntries(room_entries, container_sep) ==
    LET Room(entry) ==
            LET parts == Split(entry, ":")
            IN [name |-> Strip(parts[1]),
                path |-> IF Strip(parts[2]) # Str_start THEN Strip(parts[2]) ELSE <<>>,
                containers |->
                    StrippedNonEmpty(Split(Strip(Join(SubSeq(parts, 3, Len(parts)), ":")),
                                           container_sep))]
        complete == SelectSeq(room_entries, LAMBDA entry : Len(Split(entry, ":")) >= 3)
    IN [k \in 1..Len(complete) |-> Room(complete[k])]

\* _parse_room_config without '|': the entries cut out of the ':'-separated parts
RECURSIVE EntriesBySemicolon(_)
EntriesBySemicolon(parts) ==
    IF Len(parts) < 3 THEN <<>>
    ELSE LET containers == parts[3]
             next_room_pos == IndexOf(containers, ";")
         IN IF next_room_pos > 1 /\ next_room_pos <= Len(containers) /\ Len(parts) > 3
            THEN <<Join(<<parts[1], parts[2], SubSeq(containers, 1, next_room_pos - 1)>>, ":")>>
                 \o EntriesBySemicolon(
                        Split(SubSeq(containers, next_room_pos + 1, Len(containers))
                                \o <<":">> \o Join(SubSeq(parts, 4, Len(parts)), ":"), ":"))
            ELSE <<Join(<<parts[1], parts[2], containers>>, ":")>>

\* HouseScannerV2._parse_room_config: containers are separated by ';'
_parse_room_config(rooms_str) ==
    IF Strip(rooms_str) = <<>>
    THEN << [name |-> <<"M", "a", "i", "n", " ", "R", "o", "o", "m">>, path |-> <<>>, containers |-> <<>>] >>
    ELSE IF Contains(rooms_str, <<"|">>)
    THEN RoomsOfEntries(StrippedNonEmpty(Split(rooms_str, "|")), ";")
    ELSE RoomsOfEntries(EntriesBySemicolon(Split(rooms_str, ":")), ";")

\* HouseManagerV2.parse_rooms: containers are separated by ','
parse_rooms(rooms_str) ==
    IF Strip(rooms_str) = <<>> THEN <<>>
    ELSE IF Contains(rooms_str, <<"|">>)
    THEN RoomsOfEntries(StrippedNonEmpty(Split(rooms_str, "|")), ",")
    ELSE RoomsOfEntries(StrippedNonEmpty(Split(rooms_str, ";")), ",")

-----------------------------------------------------------------------------
(* The parsers and the container lookup called directly (SpecParse) *)

LinePrefixes == { <<>>, <<"a", " ">>, <<"A", "n", " ">>, <<"t", "h", "e", " ">>, <<"3", " ">> }
LineBodies == { <<>>, <<"s", "w", "o", "r", "d">>, <<"s", "h", "i", "n", "i", "n", "g", " ", "r", "u", "b", "i", "e", "s">> }
LineSuffixes == { <<>>, <<" ", "(", "5", ")">>, <<"(", "1", "2", ")">>, <<" ", "(", "0", ")">> }

\* item lines as the output parsers hand them to parse_item_line
ItemLines ==
    {p \o b \o x : p \in LinePrefixes, b \in LineBodies, x \in LineSuffixes}
        \cup { <<"N", "o", "t", "h", "i", "n", "g">>, <<"s", "w", "o", "r", "d", " ", "(", "5", ")", " ">> }

\* lines of a house container listing: with colour codes, a prompt, a flag
HouseLines ==
    ItemLines \cup { <<"[", "A", "a", "]", " ", "5", "/", "5", "h", "p">>,
                     <<ESC, "[", "0", "m">>,
                     <<"s", "w", "o", "r", "d", " ", "(", "5", ")", ESC, "[", "0", "m">>,
                     <<"s", "w", "o", "r", "d", " ", "H", "Y">>,
                     <<ESC, "[", "1", "m", "a", " ", "s", "w", "o", "r", "d", ESC, "[", "0", "m", " ", "(", "2", ")">> }

\* responses to the command 'i'
Responses ==
    { <<"Y", "o", "u", " ", "a", "r", "e", " ", "c", "a", "r", "r", "y", "i", "n", "g", " ", "3", " ", "i", "t", "e", "m", "s", ":", "\n", "a", " ", "s", "w", "o", "r", "d", "\n", "a", " ", "s", "w", "o", "r", "d", "\n", "t", "h", "e", " ", "p", "o", "t", "i", "o", "n", " ", "(", "2", ")", "\n", "[", "A", "a", "]", " ", "5", "/", "5", "h", "p", " ", ">", "\n", "a", "n", " ", "a", "x", "e">>,
      <<"a", " ", "s", "w", "o", "r", "d", "\n", "Y", "o", "u", " ", "a", "r", "e", " ", "c", "a", "r", "r", "y", "i", "n", "g", " ", "1", " ", "i", "t", "e", "m", ":", "\n", "\n", "[", "n", "o", "t", "e", "]", "\n", "(", "5", ")", "\n", "3", " ", "s", "h", "i", "n", "i", "n", "g", " ", "r", "u", "b", "i", "e", "s", " ", "(", "5", ")">>,
      <<"Y", "o", "u", " ", "a", "r", "e", " ", "c", "a", "r", "r", "y", "i", "n", "g", " ", "n", "o", "t", "h", "i", "n", "g", ".">>,
      <<"Y", "o", "u", " ", "a", "r", "e", " ", "c", "a", "r", "r", "y", "i", "n", "g", " ", "2", " ", "i", "t", "e", "m", "s", ":", "\n", "n", "o", "t", "h", "i", "n", "g", "\n", "A", "n", " ", "a", "p", "p", "l", "e", " ", "(", "1", "2", ")">> }

\* container_mappings.json, in the order of the file
MappingTables ==
    { << [key |-> <<"l", "a", "r", "g", "e", " ", "b", "a", "s", "k", "e", "t">>, keyword |-> <<"b", "a", "s", "k", "e", "t">>] >>,
      << [key |-> <<"a", " ", "b", "a", "g">>, keyword |-> <<"b", "a", "g">>],
         [key |-> <<"l", "a", "r", "g", "e", " ", "b", "a", "s", "k", "e", "t">>, keyword |-> <<"b", "a", "s", "k", "e", "t">>] >>,
      << [key |-> <<"T", "h", "e", " ", "C", "h", "e", "s", "t">>, keyword |-> <<"c", "h", "e", "s", "t">>] >>,
      << [key |-> <<"a", " ", "b", "a", "g">>, keyword |-> <<"b", "a", "g">>],
         [key |-> <<"b", "a", "g">>, keyword |-> <<"s", "a", "c", "k">>] >> }

\* cleaned item names looked up
LookupNames ==
    { <<"a", " ", "l", "a", "r", "g", "e", " ", "b", "a", "s", "k", "e", "t">>, <<"L", "a", "r", "g", "e", " ", "B", "a", "s", "k", "e", "t">>, <<"T", "h", "e", " ", "L", "a", "r", "g", "e", " ", "B", "a", "s", "k", "e", "t">>,
      <<"b", "a", "g">>, <<"A", " ", "B", "a", "g">>, <<"a", "n", " ", "b", "a", "g">>, <<"c", "h", "e", "s", "t">>,
      <<"t", "h", "e", " ", "c", "h", "e", "s", "t">>, <<"s", "w", "o", "r", "d">>, <<"l", "a", "r", "g", "e">>,
      <<"h", "a", "n", "d", "b", "a", "g">>, <<"o", "l", "d", " ", "b", "a", "g">> }

\* the rooms column of houses.csv
RoomConfigs ==
    { <<"V", "a", "u", "l", "t", ":", "u", ";", "n", ":", "c", "h", "e", "s", "t", ",", "u", "r", "n", "|", "H", "a", "l", "l", ":", "s", "t", "a", "r", "t", ":", "s", "h", "e", "l", "f">>,
      <<"V", "a", "u", "l", "t", ":", "u", ";", "n", ":", "c", "h", "e", "s", "t", ";", "u", "r", "n", "|", "H", "a", "l", "l", ":", "s", "t", "a", "r", "t", ":", "s", "h", "e", "l", "f">>,
      <<"H", "a", "l", "l", ":", "s", "t", "a", "r", "t", ":", "s", "h", "e", "l", "f">>,
      <<"H", "a", "l", "l", ":", ":", "s", "h", "e", "l", "f", ";", "D", "e", "n", ":", "n", ":", "b", "o", "x">>,
      <<>> }

\* answers to 'garb'
EquipmentBlocks ==
    { <<"Y", "o", "u", " ", "a", "r", "e", " ", "u", "s", "i", "n", "g", ":", "\n", "<", "u", "s", "e", "d", " ", "a", "s", " ", "l", "i", "g", "h", "t", ">", " ", "a", " ", "g", "e", "m", "\n", "<", "w", "o", "r", "n", " ", "o", "n", " ", "f", "i", "n", "g", "e", "r", ">", " ", "a", " ", "g", "e", "m", "\n", "<", "w", "o", "r", "n", " ", "a", "r", "o", "u", "n", "d", " ", "n", "e", "c", "k", ">", " ", "a", " ", "g", "e", "m", "\n", "<", "w", "o", "r", "n", " ", "o", "n", " ", "b", "o", "d", "y", ">", " ", "n", "o", "t", "h", "i", "n", "g", "\n", "<", "w", "o", "r", "n", " ", "o", "n", " ", "h", "e", "a", "d", ">", " ", "a", " ", "g", "e", "m", "\n", "<", "w", "o", "r", "n", " ", "o", "n", " ", "l", "e", "g", "s", ">", " ", "a", " ", "g", "e", "m", "\n", "<", "w", "o", "r", "n", " ", "o", "n", " ", "f", "e", "e", "t", ">", " ", "a", " ", "g", "e", "m", "\n", "<", "w", "o", "r", "n", " ", "o", "n", " ", "h", "a", "n", "d", "s", ">", " ", "a", " ", "g", "e", "m", "\n", "<", "w", "o", "r", "n", " ", "o", "n", " ", "a", "r", "m", "s", ">", " ", "a", " ", "g", "e", "m", "\n", "<", "w", "o", "r", "n", " ", "a", "b", "o", "u", "t", " ", "b", "o", "d", "y", ">", " ", "a", " ", "g", "e", "m", "\n", "<", "w", "o", "r", "n", " ", "a", "b", "o", "u", "t", " ", "w", "a", "i", "s", "t", ">", " ", "a", " ", "g", "e", "m", "\n", "<", "w", "o", "r", "n", " ", "a", "r", "o", "u", "n", "d", " ", "w", "r", "i", "s", "t", ">", " ", "a", " ", "g", "e", "m", "\n", "<", "w", "i", "e", "l", "d", "e", "d", ">", " ", "a", " ", "g", "e", "m", "\n", "<", "d", "u", "a", "l", " ", "w", "i", "e", "l", "d", "e", "d", ">", " ", "a", " ", "g", "e", "m", "\n", "<", "w", "o", "r", "n", " ", "a", "s", " ", "s", "h", "i", "e", "l", "d", ">", " ", "a", " ", "g", "e", "m", "\n", "<", "h", "e", "l", "d", ">", " ", "a", " ", "g", "e", "m", "\n", "<", "w", "o", "r", "n", " ", "o", "n", " ", "e", "a", "r", "s", ">", " ", "a", " ", "g", "e", "m", "\n", "<", "w", "o", "r", "n", " ", "o", "n", " ", "e", "y", "e", "s", ">", " ", "a", " ", "g", "e", "m", "\n", "<", "w", "o", "r", "n", " ", "o", "n", " ", "b", "a", "c", "k", ">", " ", "a", " ", "g", "e", "m", "\n", "<", "w", "o", "r", "n", " ", "o", "v", "e", "r", " ", "f", "a", "c", "e", ">", " ", "a", " ", "g", "e", "m", "\n", "<", "w", "o", "r", "n", " ", "a", "r", "o", "u", "n", "d", " ", "a", "n", "k", "l", "e", ">", " ", "a", " ", "g", "e", "m">>,
      <<"Y", "o", "u", " ", "a", "r", "e", " ", "u", "s", "i", "n", "g", ":", "\n", "<", "w", "o", "r", "n", " ", "o", "n", " ", "h", "e", "a", "d", ">", " ", "a", " ", "h", "e", "l", "m", "\n", "<", "w", "o", "r", "n", " ", "o", "n", " ", "b", "o", "d", "y", ">", " ", "n", "o", "t", "h", "i", "n", "g">>,
      <<"Y", "o", "u", " ", "a", "r", "e", " ", "u", "s", "i", "n", "g", ":", "\n", "<", "w", "o", "r", "n", " ", "o", "n", " ", "f", "i", "n", "g", "e", "r", ">", " ", "a", " ", "r", "i", "n", "g", "\n", "<", "w", "o", "r", "n", " ", "o", "n", " ", "f", "i", "n", "g", "e", "r", ">", " ", "[", "N", "o", "t", "h", "i", "n", "g", "]", "\n", "<", "h", "e", "l", "d", ">", " ", "a", " ", "g", "e", "m", " ", "(", "2", ")">>,
      <<"Y", "o", "u", " ", "a", "r", "e", " ", "u", "s", "i", "n", "g", ":", "\n", "<", "w", "o", "r", "n", " ", "o", "n", " ", "h", "e", "a", "d", ">", " ", "a", " ", "h", "e", "l", "m", "\n", "<", "w", "o", "r", "n", " ", "o", "n", " ", "h", "e", "a", "d", ">", " ", "a", " ", "h", "e", "l", "m", "\n", "<", "w", "i", "e", "l", "d", "e", "d", ">", " ", "a", " ", "s", "w", "o", "r", "d">>,
      <<"<", "h", "e", "l", "d", ">", " ", "n", "o", "t", "h", "i", "n", "g", "\n", "Y", "o", "u", " ", "a", "r", "e", " ", "u", "s", "i", "n", "g", ":", "\n", "<", "w", "o", "r", "n", " ", "o", "n", " ", "t", "a", "i", "l", ">", " ", "n", "o", "n", "e", "\n", "\n", "<", "h", "e", "l", "d", ">", " ", "a", " ", "g", "e", "m", "\n", ">", "\n", "<", "w", "o", "r", "n", " ", "o", "n", " ", "h", "e", "a", "d", ">", " ", "e", "m", "p", "t", "y">> }

NoEntry == [fn |-> "none", input |-> <<>>, result |-> <<>>]

\* no direct call yet: the clock, the call before the last one, the last one
NoParse == [now |-> 0, prev |-> NoEntry, last |-> NoEntry]

InitParse ==
    /\ store = EmptyStore
    /\ ncalls = 0
    /\ call = NoParse
    /\ RunIdle

\* a call of fn on input at time now; a behaviour makes two calls
Called(fn, input, result, now) ==
    /\ call.prev = NoEntry
    /\ call' = [now |-> now, prev |-> call.last,
                last |-> [fn |-> fn, input |-> input, result |-> result]]
    /\ ncalls' = ncalls + 1
    /\ UNCHANGED <<store, flagVars, inputVars, loopVars, sessionVars, resultVars, faults>>

\* datetime.now() at a call: the clock has moved on or not
Clock == {call.now, call.now + 1}

ParseItemLine ==
    \E line \in ItemLines, now \in Clock :
        Called("parse_item_line", line, parse_item_line(Aa, line, "inventory", now), now)

ParseHouseItemLine ==
    \E line \in HouseLines, now \in Clock :
        Called("parse_house_item_line", line,
               parse_house_item_line(Aa, "Home", line, "house:Vault:chest", now), now)

FindContainerMapping ==
    \E container_mappings \in MappingTables, item_name \in LookupNames :
        Called("_find_container_mapping",
               [container_mappings |-> container_mappings, item_name |-> item_name],
               _find_container_mapping(container_mappings, item_name), call.now)

ParseRoomConfig ==
    \E rooms_str \in RoomConfigs :
        Called("_parse_room_config", rooms_str, _parse_room_config(rooms_str), call.now)

ParseInventoryOutput ==
    \E response \in Responses, now \in Clock :
        Called("parse_inventory_output", response,
               parse_inventory_output(Aa, response, now), now)

ParseRooms ==
    \E rooms_str \in RoomConfigs :
        Called("parse_rooms", rooms_str, parse_rooms(rooms_str), call.now)

\* the equipment parser, then the needs field of the stat record
ParseEquipmentOutput ==
    \E response \in EquipmentBlocks, now \in Clock :
        LET parsed == parse_equipment_output(Aa, response, now)
        IN Called("parse_equipment_output", response,
                  [items |-> parsed.items,
                   needs |-> generate_needs_list(parsed.empty_equipment_slots)], now)

NextParse ==
    \/ ParseItemLine \/ ParseHouseItemLine \/ ParseInventoryOutput
    \/ FindContainerMapping \/ ParseRoomConfig \/ ParseRooms \/ ParseEquipmentOutput

SpecParse == InitParse /\ [][NextParse]_vars

-----------------------------------------------------------------------------
(* The game world the scan sees: what the server answers for each character *)

\* container_mappings.json
container_mappings ==
    << [key |-> <<"l", "a", "r", "g", "e", " ", "b", "a", "s", "k", "e", "t">>, keyword |-> <<"b", "a", "s", "k", "e", "t">>],
       [key |-> <<"w", "o", "v", "e", "n", " ", "b", "a", "s", "k", "e", "t">>, keyword |-> <<"b", "a", "s", "k", "e", "t">>],
       [key |-> <<"a", " ", "b", "a", "g">>, keyword |-> <<"b", "a", "g">>] >>

\* the item names of the records parsed from the answer to 'i'
Carried(username) ==
    CASE username = Aa -> <<>>
      [] username = Cc -> << <<"l", "a", "r", "g", "e", " ", "b", "a", "s", "k", "e", "t">>, <<"o", "l", "d", " ", "c", "r", "a", "t", "e">>,
                             <<"(", "G", "l", "o", "w", "i", "n", "g", ")", " ", "w", "o", "v", "e", "n", " ", "b", "a", "s", "k", "e", "t">>, <<"b", "a", "g">>,
                             <<"s", "w", "o", "r", "d">> >>
      [] username = Dd -> <<>>
      [] OTHER -> << <<"s", "w", "o", "r", "d">> >>

\* the keywords detect_containers_in_inventory returns for the carried items
DetectedContainers(carried) ==
    detect_containers_in_inventory(container_mappings, carried).detected

\* the items listed by 'exam <keyword>'
Contents(keyword) == << <<"p", "o", "t", "i", "o", "n">> >>

\* the items listed by 'garb'
Equipped(username) == IF username = Dd THEN << <<"s", "h", "i", "e", "l", "d">> >> ELSE <<>>

\* the slots 'garb' lists as empty
EmptySlots(username) ==
    IF username = Cc THEN << <<"w", "o", "r", "n", " ", "o", "n", " ", "h", "e", "a", "d">>, <<"h", "e", "l", "d">>, <<"w", "o", "r", "n", " ", "o", "n", " ", "t", "a", "i", "l">> >>
    ELSE <<>>

\* the names of characters.csv
RosterNames == {Roster[k].username : k \in 1..Len(Roster)}

\* for each character, the keywords detected among the carried items, in
\* detection order
DetectedBy == [u \in RosterNames |-> DetectedContainers(Carried(u))]

\* for each character, the needs field computed after 'garb'
NeedsBy == [u \in RosterNames |-> generate_needs_list(EmptySlots(u))]

\* houses.csv as the room parser returns it: only Cc owns a house
HouseRooms(username) ==
    IF username = Cc
    THEN << [name |-> "Vault", path |-> <<"u", "n">>, containers |-> << <<"c", "h", "e", "s", "t">> >>],
            [name |-> "Hall", path |-> <<>>, containers |-> << <<"s", "h", "e", "l", "f">> >>] >>
    ELSE <<>>

ItemRecords(username, location, names) ==
    [k \in 1..Len(names) |-> [character |-> username, location |-> location,
                              item_name |-> names[k], scan_time |-> 1]]

HouseName(username) == username \o Str_House

-----------------------------------------------------------------------------
(* The batch run (main.py): the scan loop *)

username == characters[i].username

\* the pause/cancel flags as the scanners' `import main` sees them: started
\* as a script, main.py is the module __main__, and `import main` loads a
\* second copy of it whose flags nobody sets
SeenPaused == ~runAsScript /\ scan_paused
SeenCancelled == ~runAsScript /\ scan_cancelled

\* MUDClient.disconnect
Disconnected(c) == [c EXCEPT !.connected = FALSE]

Init ==
    /\ store \in LoadedStores
    /\ ncalls = 0
    /\ call = NoCall
    /\ runAsScript \in BOOLEAN
    /\ all_characters \in {<<>>, Roster}
    /\ args \in ArgsSet
    /\ characters = <<>>
    /\ scan_paused = FALSE
    /\ scan_cancelled = FALSE
    /\ kbAlive = FALSE
    /\ cancelAt = NoCancel
    /\ pc = "start"
    /\ i = 0
    /\ delay_k = 0
    /\ attempt = 0
    /\ client = NoClient
    /\ nclients = 0
    /\ openConns = {}
    /\ sent = <<>>
    /\ scan = ScanIdle
    /\ success_count = 0
    /\ failed_characters = <<>>
    /\ character_times = 0
    /\ attempted = <<>>
    /\ faults = 0
    /\ exported = NoExport
    /\ printedFailed = <<>>
    /\ exitStatus = "running"

\* main up to the scan loop: load the roster, --list, the selection, the
\* keyboard handler
Start ==
    /\ pc = "start"
    /\ LET selected == Select(all_characters, args, store.character_stats)
       IN IF all_characters = <<>>
          THEN /\ exitStatus' = "1" /\ pc' = "exited"
               /\ UNCHANGED <<characters, i, kbAlive>>
          ELSE IF args.list
          THEN /\ exitStatus' = "0" /\ pc' = "exited"
               /\ UNCHANGED <<characters, i, kbAlive>>
          ELSE IF selected = <<>>
          THEN /\ exitStatus' = "1" /\ pc' = "exited" /\ characters' = selected
               /\ UNCHANGED <<i, kbAlive>>
          ELSE /\ characters' = selected /\ i' = 1 /\ kbAlive' = TRUE
               /\ pc' = "loop_top" /\ UNCHANGED exitStatus
    /\ UNCHANGED <<storeVars, inputVars, scan_paused, scan_cancelled, cancelAt,
                   delay_k, attempt, sessionVars, success_count, failed_characters,
                   character_times, attempted, exported, printedFailed, faults>>

\* the head of the for loop and its first cancellation check
LoopTop ==
    /\ pc = "loop_top"
    /\ pc' = IF i > Len(characters) \/ scan_cancelled THEN "after_loop" ELSE "pause_wait"
    /\ UNCHANGED <<storeVars, flagVars, inputVars, characters, i, delay_k, attempt,
                   sessionVars, resultVars, faults>>

\* a pause wait that only the end of the pause ends
PauseWait_UntilResumed ==
    /\ pc = "pause_wait"
    /\ ~scan_paused
    /\ IF scan_cancelled THEN pc' = "after_loop" /\ UNCHANGED delay_k
       ELSE IF i > 1 THEN pc' = "rate_delay" /\ delay_k' = RateLimitTicks
       ELSE pc' = "process" /\ UNCHANGED delay_k
    /\ UNCHANGED <<storeVars, flagVars, inputVars, characters, i, attempt,
                   sessionVars, resultVars, faults>>

\* while scan_paused and not scan_cancelled: sleep; then the second check
PauseWait ==
    /\ pc = "pause_wait"
    /\ ~(scan_paused /\ ~scan_cancelled)
    /\ IF scan_cancelled THEN pc' = "after_loop" /\ UNCHANGED delay_k
       ELSE IF i > 1 THEN pc' = "rate_delay" /\ delay_k' = RateLimitTicks
       ELSE pc' = "process" /\ UNCHANGED delay_k
    /\ UNCHANGED <<storeVars, flagVars, inputVars, characters, i, attempt,
                   sessionVars, resultVars, faults>>

\* one turn of the pacing loop between two characters
RateDelay ==
    /\ pc = "rate_delay"
    /\ IF scan_cancelled THEN pc' = "process" /\ UNCHANGED delay_k
       ELSE /\ ~scan_paused
            /\ delay_k' = delay_k - 1
            /\ pc' = IF delay_k = 1 THEN "process" ELSE "rate_delay"
    /\ UNCHANGED <<storeVars, flagVars, inputVars, characters, i, attempt,
                   sessionVars, resultVars, faults>>

\* the third check, then the call of scan_character
Process ==
    /\ pc = "process"
    /\ IF scan_cancelled THEN pc' = "after_loop" /\ UNCHANGED <<attempt, attempted>>
       ELSE /\ pc' = "attempt" /\ attempt' = 0
            /\ attempted' = Append(attempted, username)
    /\ UNCHANGED <<storeVars, flagVars, inputVars, characters, i, delay_k,
                   sessionVars, success_count, failed_characters, character_times,
                   exported, printedFailed, exitStatus, faults>>

\* a return after which a failed character ends the loop
Returned_StopOnFailure(success) ==
    /\ character_times' = character_times + 1
    /\ IF success
       THEN success_count' = success_count + 1 /\ UNCHANGED failed_characters
       ELSE /\ failed_characters' = Append(failed_characters, characters[i])
            /\ UNCHANGED success_count
    /\ i' = i + 1
    /\ pc' = IF success THEN "loop_top" ELSE "after_loop"
\* scan_character returned (success, scan_time) to main
Returned(success) ==
    /\ character_times' = character_times + 1
    /\ IF success
       THEN success_count' = success_count + 1 /\ UNCHANGED failed_characters
       ELSE /\ failed_characters' = Append(failed_characters, characters[i])
            /\ UNCHANGED success_count
    /\ i' = i + 1
    /\ pc' = "loop_top"

\* the retry loop ran out: scan_character returns False
ScanFailed ==
    /\ pc = "attempt"
    /\ attempt >= MAX_RETRIES
    /\ Returned(FALSE)
    /\ UNCHANGED <<storeVars, flagVars, inputVars, characters, delay_k, attempt,
                   sessionVars, attempted, exported, printedFailed, exitStatus, faults>>

\* the client an attempt constructs and connects
\* the client of the attempt before, connected once more
AttemptClient_Reused == [client EXCEPT !.connects = @ + 1]
AttemptClient ==
    [NewClient(nclients + 1, i, IF client.owner = i THEN client.nth + 1 ELSE 1)
        EXCEPT !.connects = 1]

\* a new attempt: a new MUDClient, connect() succeeds
ConnectOk ==
    /\ pc = "attempt"
    /\ attempt < MAX_RETRIES
    /\ nclients' = nclients + 1
    /\ client' = [AttemptClient EXCEPT !.connected = TRUE]
    /\ openConns' = openConns \cup {AttemptClient.id}
    /\ sent' = <<>>
    /\ scan' = ScanIdle
    /\ pc' = "login"
    /\ UNCHANGED <<storeVars, flagVars, inputVars, characters, i, delay_k, attempt,
                   resultVars, faults>>

\* a new attempt: a new MUDClient, connect() fails
ConnectFails ==
    /\ pc = "attempt"
    /\ attempt < MAX_RETRIES
    /\ faults < MaxFaults
    /\ faults' = faults + 1
    /\ nclients' = nclients + 1
    /\ client' = AttemptClient
    /\ sent' = <<>>
    /\ scan' = ScanIdle
    /\ attempt' = attempt + 1
    /\ UNCHANGED <<storeVars, flagVars, inputVars, characters, pc, i, delay_k,
                   openConns, resultVars>>

\* login() succeeds and switches the colours off
LoginOk ==
    /\ pc = "login"
    /\ client' = [client EXCEPT !.logins = @ + 1]
    /\ sent' = Append(sent, <<"config -ansi">>)
    /\ pc' = "score"
    /\ UNCHANGED <<storeVars, flagVars, inputVars, characters, i, delay_k, attempt,
                   nclients, openConns, scan, resultVars, faults>>

\* login() fails and the script is run all the same
LoginFails_ScansAnyway ==
    /\ pc = "login"
    /\ faults < MaxFaults
    /\ faults' = faults + 1
    /\ client' = [client EXCEPT !.logins = @ + 1]
    /\ pc' = "score"
    /\ UNCHANGED <<storeVars, flagVars, inputVars, characters, i, delay_k, attempt,
                   nclients, openConns, sent, scan, resultVars>>

\* login() fails: disconnect, next attempt
LoginFails ==
    /\ pc = "login"
    /\ faults < MaxFaults
    /\ faults' = faults + 1
    /\ client' = Disconnected([client EXCEPT !.logins = @ + 1])
    /\ openConns' = openConns \ {client.id}
    /\ attempt' = attempt + 1
    /\ pc' = "attempt"
    /\ UNCHANGED <<storeVars, flagVars, inputVars, characters, i, delay_k,
                   nclients, sent, scan, resultVars>>

-----------------------------------------------------------------------------
(* The session script (InventoryScanner.scan_character_inventory) *)

StepFrame ==
    UNCHANGED <<storeVars, flagVars, inputVars, characters, i, delay_k, attempt,
                client, nclients, openConns, resultVars, faults>>

\* MUDClient.send_command: nothing is sent on a client that is not connected
Sends(command) == sent' = IF client.connected THEN Append(sent, command) ELSE sent

\* _check_scan_state, then the code that follows it when it returns
CheckScanState(nextpc, nextscan) ==
    /\ ~(SeenPaused /\ ~SeenCancelled)
    /\ IF SeenCancelled
       THEN \* KeyboardInterrupt: passes every `except Exception`, caught by main
            pc' = "after_loop" /\ UNCHANGED scan
       ELSE pc' = nextpc /\ scan' = nextscan
    /\ UNCHANGED sent
    /\ StepFrame

SendScore ==
    /\ pc = "score"
    /\ Sends(<<"score">>)
    /\ pc' = "check_score"
    /\ UNCHANGED scan /\ StepFrame

CheckAfterScore == pc = "check_score" /\ CheckScanState("whois", scan)

SendWhois ==
    /\ pc = "whois"
    /\ Sends(<<"whois", username>>)
    /\ pc' = "check_whois"
    /\ UNCHANGED scan /\ StepFrame

CheckAfterWhois == pc = "check_whois" /\ CheckScanState("inv", scan)

SendInventory ==
    /\ pc = "inv"
    /\ Sends(<<"i">>)
    /\ scan' = [scan EXCEPT !.all_items = @ \o ItemRecords(username, "inventory", Carried(username))]
    /\ pc' = "check_inv"
    /\ StepFrame

\* the check after 'i', then the container detection over the carried items
CheckAfterInventory ==
    /\ pc = "check_inv"
    /\ LET detected == DetectedBy[username]
       IN CheckScanState(IF detected # <<>> THEN "exam" ELSE "garb",
                         [scan EXCEPT !.detected = detected, !.k = 1])

SendExam ==
    /\ pc = "exam"
    /\ Sends(<<"exam", scan.detected[scan.k]>>)
    /\ scan' = [scan EXCEPT !.all_items =
                    @ \o ItemRecords(username, scan.detected[scan.k],
                                     Contents(scan.detected[scan.k]))]
    /\ pc' = "check_exam"
    /\ StepFrame

CheckAfterExam ==
    /\ pc = "check_exam"
    /\ CheckScanState(IF scan.k < Len(scan.detected) THEN "exam" ELSE "garb",
                      [scan EXCEPT !.k = @ + 1])

SendGarb ==
    /\ pc = "garb"
    /\ Sends(<<"garb">>)
    /\ scan' = [scan EXCEPT !.all_items = @ \o ItemRecords(username, "equipped", Equipped(username)),
                             !.needs = NeedsBy[username]]
    /\ pc' = "house"
    /\ StepFrame

\* where the walk goes on from the start of room r
RECURSIVE RoomEntry(_, _)
RoomEntry(rooms, r) ==
    IF r > Len(rooms) THEN [pc |-> "save", room |-> r]
    ELSE IF rooms[r].path # <<>> THEN [pc |-> "house_nav", room |-> r]
    ELSE IF rooms[r].containers # <<>> THEN [pc |-> "house_look", room |-> r]
    ELSE RoomEntry(rooms, r + 1)

\* where the walk goes on once the containers of room r are done
AfterContainers(rooms, r) ==
    IF rooms[r].path # <<>> THEN [pc |-> "house_back", room |-> r]
    ELSE RoomEntry(rooms, r + 1)

\* scan_character_house without a configured house
NoHouse ==
    /\ pc = "house"
    /\ HouseRooms(username) = <<>>
    /\ pc' = "save"
    /\ UNCHANGED <<sent, scan>> /\ StepFrame

\* 'secthome' takes the character to the house
HouseHome ==
    /\ pc = "house"
    /\ HouseRooms(username) # <<>>
    /\ Sends(<<"secthome">>)
    /\ LET e == RoomEntry(HouseRooms(username), 1)
       IN pc' = e.pc /\ scan' = [scan EXCEPT !.room = e.room, !.step = 1, !.k = 1]
    /\ StepFrame

\* 'secthome' is refused: the house scan returns nothing
HouseHomeFails ==
    /\ pc = "house"
    /\ HouseRooms(username) # <<>>
    /\ faults < MaxFaults
    /\ faults' = faults + 1
    /\ Sends(<<"secthome">>)
    /\ pc' = "save"
    /\ UNCHANGED <<scan, storeVars, flagVars, inputVars, characters, i, delay_k,
                   attempt, client, nclients, openConns, resultVars>>

\* one movement command of the room's path succeeds
HouseMove ==
    /\ pc = "house_nav"
    /\ Sends(<<HouseRooms(username)[scan.room].path[scan.step]>>)
    /\ pc' = "house_nav_check"
    /\ UNCHANGED scan /\ StepFrame

\* one movement command fails and the walk ends there
HouseMoveFails_EndsWalk ==
    /\ pc = "house_nav"
    /\ faults < MaxFaults
    /\ faults' = faults + 1
    /\ Sends(<<HouseRooms(username)[scan.room].path[scan.step]>>)
    /\ pc' = "save"
    /\ UNCHANGED <<scan, storeVars, flagVars, inputVars, characters, i, delay_k,
                   attempt, client, nclients, openConns, resultVars>>

\* one movement command fails: the room is skipped
HouseMoveFails ==
    /\ pc = "house_nav"
    /\ faults < MaxFaults
    /\ faults' = faults + 1
    /\ Sends(<<HouseRooms(username)[scan.room].path[scan.step]>>)
    /\ LET e == RoomEntry(HouseRooms(username), scan.room + 1)
       IN pc' = e.pc /\ scan' = [scan EXCEPT !.room = e.room, !.step = 1, !.k = 1]
    /\ UNCHANGED <<storeVars, flagVars, inputVars, characters, i, delay_k,
                   attempt, client, nclients, openConns, resultVars>>

CheckAfterMove ==
    /\ pc = "house_nav_check"
    /\ LET room == HouseRooms(username)[scan.room]
       IN IF scan.step < Len(room.path)
          THEN CheckScanState("house_nav", [scan EXCEPT !.step = @ + 1])
          ELSE CheckScanState(IF room.containers # <<>> THEN "house_look" ELSE "house_back",
                              [scan EXCEPT !.k = 1])

HouseLook ==
    /\ pc = "house_look"
    /\ Sends(<<"look">>)
    /\ pc' = "house_exam"
    /\ UNCHANGED scan /\ StepFrame

HouseExam ==
    /\ pc = "house_exam"
    /\ LET container == HouseRooms(username)[scan.room].containers[scan.k]
       IN /\ Sends(<<"exam", container>>)
          /\ scan' = [scan EXCEPT !.house_items =
                        @ \o ItemRecords(HouseName(username), container, << <<"r", "o", "p", "e">> >>)]
    /\ pc' = "house_check"
    /\ StepFrame

CheckAfterHouseExam ==
    /\ pc = "house_check"
    /\ LET rooms == HouseRooms(username)
       IN IF scan.k < Len(rooms[scan.room].containers)
          THEN CheckScanState("house_look", [scan EXCEPT !.k = @ + 1])
          ELSE LET e == AfterContainers(rooms, scan.room)
               IN CheckScanState(e.pc, [scan EXCEPT !.room = e.room, !.step = 1, !.k = 1])

\* back to the anchor after a room that was walked to
HouseBack ==
    /\ pc = "house_back"
    /\ Sends(<<"secthome">>)
    /\ LET e == RoomEntry(HouseRooms(username), scan.room + 1)
       IN pc' = e.pc /\ scan' = [scan EXCEPT !.room = e.room, !.step = 1, !.k = 1]
    /\ StepFrame

\* the places of the house walk at which an exception is raised
HousePcs == {"house_nav_check", "house_check"}

\* an exception inside the house walk: caught there, the house yields nothing
HouseRaises ==
    /\ pc \in HousePcs
    /\ faults < MaxFaults
    /\ faults' = faults + 1
    /\ scan' = [scan EXCEPT !.house_items = <<>>]
    /\ pc' = "save"
    /\ UNCHANGED <<sent, storeVars, flagVars, inputVars, characters, i, delay_k,
                   attempt, client, nclients, openConns, resultVars>>

\* 'quit' sent in the place of 'save'
SendSave_QuitFirst ==
    /\ pc = "save"
    /\ Sends(<<"quit">>)
    /\ pc' = "quit"
    /\ UNCHANGED scan /\ StepFrame

SendSave ==
    /\ pc = "save"
    /\ Sends(<<"save">>)
    /\ pc' = "quit"
    /\ UNCHANGED scan /\ StepFrame

SendQuit ==
    /\ pc = "quit"
    /\ Sends(<<"quit">>)
    /\ pc' = "add_data"
    /\ UNCHANGED scan /\ StepFrame

-----------------------------------------------------------------------------
(* scan_character after the script, the end of the run, the operator *)

\* the hand-over of the items alone, without the stat records
StoreAfterScan_ItemsOnly(dm, name, all_items, house_items) ==
    add_character_data(dm, all_items, <<>>)
\* the datasets of the scan result go to the data manager: the character's,
\* then the house's when the house yielded items
StoreAfterScan(dm, name, all_items, house_items) ==
    LET own == add_character_data(dm, all_items, <<Stat(name, 1)>>)
    IN IF house_items # <<>>
       THEN add_character_data(own, house_items, <<Stat(HouseName(name), 1)>>)
       ELSE own

AddData ==
    /\ pc = "add_data"
    /\ store' = StoreAfterScan(store, username, scan.all_items, scan.house_items)
    /\ pc' = "logout_ansi"
    /\ UNCHANGED <<ncalls, call, flagVars, inputVars, characters, i, delay_k, attempt,
                   sessionVars, resultVars, faults>>

\* MUDClient.logout, first command
LogoutAnsi ==
    /\ pc = "logout_ansi"
    /\ Sends(<<"config +ansi">>)
    /\ pc' = "logout_quit"
    /\ UNCHANGED scan /\ StepFrame

\* MUDClient.logout, second command
LogoutQuit ==
    /\ pc = "logout_quit"
    /\ Sends(<<"quit">>)
    /\ pc' = "disconnect"
    /\ UNCHANGED scan /\ StepFrame

\* disconnect, then scan_character returns True
DisconnectAndReturn ==
    /\ pc = "disconnect"
    /\ client' = Disconnected(client)
    /\ openConns' = openConns \ {client.id}
    /\ Returned(TRUE)
    /\ UNCHANGED <<storeVars, flagVars, inputVars, characters, delay_k, attempt,
                   nclients, sent, scan, attempted, exported, printedFailed,
                   exitStatus, faults>>

\* a logout whose exceptions reach scan_character as well
RaisePcs_WithLogout == {"check_score", "check_inv", "house", "add_data", "logout_ansi"}

\* the places of the try block at which an exception is raised and reaches
\* scan_character's `except Exception`
\* (send_command swallows its own): the code that works on a response the
\* server has given, and the hand-over to the data manager
RaisePcs == {"check_score", "check_inv", "house", "add_data"}

\* an exception in the scan: logged, then the next attempt
ScanRaises ==
    /\ pc \in RaisePcs
    /\ faults < MaxFaults
    /\ faults' = faults + 1
    /\ attempt' = attempt + 1
    /\ pc' = "attempt"
    /\ UNCHANGED <<storeVars, flagVars, inputVars, characters, i, delay_k,
                   sessionVars, resultVars>>

\* after the loop: the two CSV files, written when a character succeeded
Export ==
    /\ pc = "after_loop"
    /\ IF success_count > 0
       THEN /\ exported' = [written |-> TRUE, items |-> store.all_data,
                            stats |-> store.character_stats]
            /\ pc' = "summary"
            /\ UNCHANGED exitStatus
       ELSE /\ exitStatus' = "0"
            /\ pc' = "exited"
            /\ UNCHANGED exported
    /\ UNCHANGED <<storeVars, flagVars, inputVars, characters, i, delay_k, attempt,
                   sessionVars, success_count, failed_characters, character_times,
                   attempted, printedFailed, faults>>

\* the summary: generate_summary_stats has no 'total_quantity' for an empty
\* item table, and the print of it raises KeyError out of main
Summary ==
    /\ pc = "summary"
    /\ IF store.all_data = <<>>
       THEN exitStatus' = "raised" /\ UNCHANGED printedFailed
       ELSE exitStatus' = "0" /\ printedFailed' = failed_characters
    /\ pc' = "exited"
    /\ UNCHANGED <<storeVars, flagVars, inputVars, characters, i, delay_k, attempt,
                   sessionVars, success_count, failed_characters, character_times,
                   attempted, exported, faults>>

\* the keyboard handler is set up and main has not returned
Running == pc \notin {"start", "exited", "store"}

\* main is inside its call of scan_character
ScanPcs == {"attempt", "login", "score", "check_score", "whois", "check_whois",
            "inv", "check_inv", "exam", "check_exam", "garb", "house", "house_nav",
            "house_nav_check", "house_look", "house_exam", "house_check",
            "house_back", "save", "quit", "add_data", "logout_ansi",
            "logout_quit", "disconnect"}

\* where the run was when the cancel was requested
CancelPoint == [i |-> i, scanning |-> pc \in ScanPcs]

OperatorFrame ==
    UNCHANGED <<storeVars, inputVars, loopVars, sessionVars, resultVars, faults>>

\* the key 'p'
PressP ==
    /\ Running /\ kbAlive
    /\ scan_paused' = ~scan_paused
    /\ kbAlive' = ~scan_cancelled
    /\ UNCHANGED <<scan_cancelled, cancelAt>>
    /\ OperatorFrame

\* the key 'q', or end of input
PressQ ==
    /\ Running /\ kbAlive
    /\ scan_cancelled' = TRUE
    /\ cancelAt' = IF scan_cancelled THEN cancelAt ELSE CancelPoint
    /\ kbAlive' = FALSE
    /\ UNCHANGED scan_paused
    /\ OperatorFrame

\* Ctrl+C: signal_handler
CtrlC ==
    /\ Running /\ ~scan_cancelled
    /\ scan_cancelled' = TRUE
    /\ cancelAt' = CancelPoint
    /\ UNCHANGED <<scan_paused, kbAlive>>
    /\ OperatorFrame

Next ==
    \/ Start \/ LoopTop \/ PauseWait \/ RateDelay \/ Process
    \/ ScanFailed \/ ConnectOk \/ ConnectFails \/ LoginOk \/ LoginFails
    \/ SendScore \/ CheckAfterScore \/ SendWhois \/ CheckAfterWhois
    \/ SendInventory \/ CheckAfterInventory \/ SendExam \/ CheckAfterExam
    \/ SendGarb \/ NoHouse \/ HouseHome \/ HouseHomeFails \/ HouseMove
    \/ HouseMoveFails \/ CheckAfterMove \/ HouseLook \/ HouseExam
    \/ CheckAfterHouseExam \/ HouseBack \/ HouseRaises \/ SendSave \/ SendQuit
    \/ AddData \/ LogoutAnsi \/ LogoutQuit \/ DisconnectAndReturn \/ ScanRaises
    \/ Export \/ Summary \/ PressP \/ PressQ \/ CtrlC

Spec == Init /\ [][Next]_vars

\* the keys of the operator
Operator == PressP \/ PressQ \/ CtrlC

\* a run over the second and third roster entries with an empty store
InitRange ==
    /\ Init
    /\ store = EmptyStore
    /\ all_characters = Roster
    /\ args = [list |-> FALSE, filter |-> "range", value |-> <<"span", 2, 3>>]

\* the event loop goes on running main: a sleep returns, an exchange with the
\* server ends; the operator may or may not press a key
SpecLive == InitRange /\ [][Next]_vars /\ WF_vars(Next /\ ~Operator)

-----------------------------------------------------------------------------
(* Claims about the batch run *)

\* an attempt's session is in progress
SessionPcs == ScanPcs \ {"attempt"}

Has(commands, command) == \E k \in 1..Len(commands) : commands[k] = command

Usernames(chars) == [k \in 1..Len(chars) |-> chars[k].username]

StatOf(stats, name, t) == \E k \in 1..Len(stats) : stats[k] = Stat(name, t)

ItemsOfScan(data, name, t) ==
    SelectSeq(data, LAMBDA r : r.character = name /\ r.scan_time = t)

\* C1: every attempt whose connect() succeeded ends with its connection
\* closed: once the attempt is over (success, failed login, exception in the
\* scan) its client is no longer connected
C1_AttemptEndsClosed == pc \notin SessionPcs => ~client.connected

\* C2: at every moment of a run at most one MUDClient connection is open
C2_OneConnectionOpen == Cardinality(openConns) <= 1

\* C3: when cancel was requested while a character was being scanned (in a
\* run without any fault), the loop stops only after the session's teardown:
\* save and quit were sent and the client was disconnected
C3_TeardownBeforeStop ==
    (pc = "after_loop" /\ cancelAt.scanning /\ faults = 0) =>
        /\ Has(sent, <<"save">>)
        /\ Has(sent, <<"quit">>)
        /\ ~client.connected

\* C4: cancel raised during the scan of character 3 of 5: no character after
\* the third is attempted; at the end of the run characters 1 and 2, if they
\* succeeded, are in the data manager and in the exported files; character 3
\* has items of this run in the store exactly when its stat record of this
\* run is there
C4_CancelDuringThird ==
    (cancelAt.scanning /\ cancelAt.i = 3 /\ Len(characters) = 5) =>
        /\ Len(attempted) <= 3
        /\ pc = "exited" =>
            /\ \A k \in 1..2 :
                 (\A f \in 1..Len(failed_characters) : failed_characters[f] # characters[k]) =>
                    LET name == characters[k].username
                    IN /\ StatOf(store.character_stats, name, 1)
                       /\ ItemsOfScan(store.all_data, name, 1) =
                             ItemRecords(name, "inventory", Carried(name))
                                \o ItemRecords(name, "equipped", Equipped(name))
                       /\ exported.written
                       /\ StatOf(exported.stats, name, 1)
                       /\ ItemsOfScan(exported.items, name, 1) =
                             ItemsOfScan(store.all_data, name, 1)
            /\ LET third == characters[3].username
               IN ItemsOfScan(store.all_data, third, 1) # <<>> <=>
                      StatOf(store.character_stats, third, 1)

\* the third character's scan was cancelled and its data is in the files
C4_ThirdCancelledAndStored ==
    /\ pc = "exited" /\ cancelAt.scanning /\ cancelAt.i = 3 /\ Len(characters) = 5
    /\ Len(attempted) = 3
    /\ StatOf(exported.stats, characters[3].username, 1)

\* C5: a character whose attempts all failed is recorded as failed and the
\* loop goes on: when the loop is over and no cancel was requested, every
\* selected character was attempted, each one counted as success or failure
C5_FailureDoesNotStopLoop ==
    /\ Len(failed_characters) + success_count = character_times
    /\ (pc \in {"after_loop", "summary"} /\ ~scan_cancelled) =>
          /\ attempted = Usernames(characters)
          /\ character_times = Len(characters)

\* the first of five characters failed and the loop reached the end
C5_FirstFailedAllAttempted ==
    /\ pc = "after_loop" /\ ~scan_cancelled /\ Len(characters) = 5
    /\ failed_characters # <<>> /\ failed_characters[1] = characters[1]
    /\ Len(attempted) = 5

\* C6: at most MAX_RETRIES attempts per character, each with a MUDClient of
\* its own that connects and logs in at most once, and no attempt for a
\* character that scan_character has returned for
C6_RetryBudget ==
    /\ attempt <= MAX_RETRIES
    /\ client.nth <= MAX_RETRIES
    /\ client.connects <= 1
    /\ client.logins <= 1
    /\ pc \in SessionPcs => (client.id = nclients /\ client.owner = i /\ character_times = i - 1)

\* the last attempt of the budget runs, after two that failed
C6_LastAttemptRuns == pc = "score" /\ client.nth = MAX_RETRIES /\ attempt = MAX_RETRIES - 1

\* C10: main's status is non-zero exactly when the roster is empty or the
\* selection matches no character
C10_ExitStatus ==
    pc = "exited" =>
        (exitStatus # "0" <=>
            \/ all_characters = <<>>
            \/ ~args.list /\ characters = <<>>)

\* C11: whenever at least one character failed, the summary main prints at
\* the end of the run lists every failed character, whatever the number of
\* characters that succeeded
C11_FailedAreListed ==
    (pc = "exited" /\ failed_characters # <<>>) => printedFailed = failed_characters

-----------------------------------------------------------------------------
(* Claims about the commands of a session (Spec) *)


\* for each character, the keywords the mapping table returns for a carried item
MappedKeywords ==
    [u \in RosterNames |->
        {_find_container_mapping(container_mappings, _strip_item_flags(Carried(u)[k])) :
            k \in 1..Len(Carried(u))} \ {None}]

\* for each character, the carried items without a mapping that look like a
\* container
UnknownPotential ==
    [u \in RosterNames |->
        {n \in {_strip_item_flags(Carried(u)[k]) : k \in 1..Len(Carried(u))} :
            /\ _find_container_mapping(container_mappings, n) = None
            /\ _might_be_container(n)}]

\* the commands of the session sent before 'garb'
BeforeGarb == SubSeq(sent, 1, IndexOf(sent, <<"garb">>) - 1)

\* C12: before 'garb', 'exam <keyword>' is sent only for a keyword the mapping
\* table returned for a carried item, never twice for the same keyword, and
\* never for an unknown potential container
C12_ExamOnlyDetected ==
    pc \in SessionPcs =>
        \A j \in 1..Len(BeforeGarb) :
            BeforeGarb[j][1] = "exam" =>
                /\ BeforeGarb[j][2] \in MappedKeywords[username]
                /\ BeforeGarb[j][2] \notin UnknownPotential[username]
                /\ \A h \in 1..Len(BeforeGarb) : BeforeGarb[h] = BeforeGarb[j] => h = j

\* Cc, who carries two baskets, a bag and an old crate, is about to send
\* 'garb' after 'exam basket' and 'exam bag'
C12_TwoBasketsOneExam ==
    /\ pc = "garb"
    /\ username = Cc
    /\ Has(sent, <<"exam", <<"b", "a", "s", "k", "e", "t">>>>)
    /\ Has(sent, <<"exam", <<"b", "a", "g">>>>)
    /\ Len(sent) = 6

\* C19: 'config -ansi' is the first command of every session, and no 'quit'
\* is sent on a session before that session's 'config +ansi'
C19_ColoursRestoredBeforeQuit ==
    pc \in SessionPcs =>
        /\ sent # <<>> => sent[1] = <<"config -ansi">>
        /\ \A j \in 1..Len(sent) :
              sent[j] = <<"quit">> => \E h \in 1..(j - 1) : sent[h] = <<"config +ansi">>


\* the commands of a session up to 'garb', in the order of the script
ScriptHead(u) ==
    << <<"config -ansi">>, <<"score">>, <<"whois", u>>, <<"i">> >>
        \o [k \in 1..Len(DetectedBy[u]) |-> <<"exam", DetectedBy[u][k]>>]
        \o << <<"garb">> >>

\* the commands of the walk through the house of u
HouseCommands(u) ==
    {<<"secthome">>, <<"look">>}
        \cup UNION {{<<HouseRooms(u)[r].path[k]>> : k \in 1..Len(HouseRooms(u)[r].path)}
                        \cup {<<"exam", HouseRooms(u)[r].containers[k]>> :
                                k \in 1..Len(HouseRooms(u)[r].containers)} :
                    r \in 1..Len(HouseRooms(u))}

ScriptTail == << <<"save">>, <<"quit">>, <<"config +ansi">>, <<"quit">> >>

IsPrefix(s, t) == Len(s) <= Len(t) /\ s = SubSeq(t, 1, Len(s))

\* C20: the commands of a session are sent in the order score, whois <name>,
\* i, one 'exam <keyword>' per detected keyword in detection order, garb, the
\* commands of the house walk if a house is configured, save, quit; the run of
\* scan_character_inventory that completes has sent them all; the needs field
\* keeps its initial value until 'garb' is sent and has the value computed
\* from the empty slots from then on, the house walk included
C20_FixedOrder ==
    pc \in SessionPcs =>
        LET head == ScriptHead(username)
            rest == SubSeq(sent, Len(head) + 1, Len(sent))
            walk == SubSeq(rest, 1, IndexOf(rest, <<"save">>) - 1)
            end == SubSeq(rest, Len(walk) + 1, Len(rest))
        IN /\ IF Len(sent) <= Len(head) THEN IsPrefix(sent, head) ELSE IsPrefix(head, sent)
           /\ \A j \in 1..Len(walk) : walk[j] \in HouseCommands(username)
           /\ IsPrefix(end, ScriptTail)
           /\ pc = "add_data" => end = << <<"save">>, <<"quit">> >>
           /\ scan.needs = IF Len(sent) < Len(head) THEN NoNeeds
                           ELSE IF username = Cc THEN <<"h", "e", "a", "d", ",", " ", "h", "e", "l", "d", ",", " ", "t", "a", "i", "l">> ELSE NoNeeds

\* Cc's run of scan_character_inventory has completed: two exams, the walk
\* through the house, save and quit are sent, the needs are computed
C20_WholeScriptOfCc ==
    /\ pc = "add_data"
    /\ username = Cc
    /\ Len(sent) > Len(ScriptHead(Cc)) + 2
    /\ Has(sent, <<"look">>)
    /\ sent[Len(sent)] = <<"quit">>
    /\ scan.needs = <<"h", "e", "a", "d", ",", " ", "h", "e", "l", "d", ",", " ", "t", "a", "i", "l">>

\* the first words of the commands of the scan script
ScanCommandWords == {"score", "whois", "i", "exam", "garb", "save"}

\* C21: a scan-script command is on a session only after login() succeeded
\* there ('config -ansi', which only a successful login sends, is the first
\* command, on a client that connected and logged in), and the attempt after
\* a failed connect or a failed login starts with no command sent
C21_ScanOnlyAfterLogin ==
    /\ (\E j \in 1..Len(sent) : sent[j][1] \in ScanCommandWords) =>
          /\ sent[1] = <<"config -ansi">>
          /\ client.connects > 0
          /\ client.logins > 0
    /\ (pc = "attempt" /\ attempt > 0 /\ client.owner = i /\ ~client.connected) =>
          sent = <<>>
    /\ pc = "login" => client.connected /\ sent = <<>>

\* the login of the first attempt failed: the second attempt is about to
\* start and nothing was sent
C21_FailedLoginSentNothing ==
    /\ pc = "attempt"
    /\ attempt = 1
    /\ client.owner = i
    /\ client.logins = 1
    /\ ~client.connected
    /\ sent = <<>>

\* the places of a scan at which _check_scan_state is called
PollPcs == {"check_score", "check_whois", "check_inv", "check_exam",
            "house_nav_check", "house_check"}

\* pause is set, cancel is not
PauseHeld == scan_paused /\ ~scan_cancelled

\* C22: while pause is held, a step of the scan that sends a command leads to
\* a check of the flags, a check of the flags does not pass, and no
\* connection is started by a retry: at most the exchange in flight completes
C22_PausedSendsNothingMore ==
    [][(PauseHeld /\ PauseHeld') =>
          /\ Len(sent') > Len(sent) => pc' \in PollPcs
          /\ pc \in PollPcs => pc' = pc
          /\ (nclients' > nclients) => attempt = 0]_vars

\* C23: once scan_cancelled is set no connection is started, neither for a
\* later character nor as a retry of the character in flight (the first
\* attempt of a call of scan_character that main had already made when the
\* flag was set is left aside)
C23_NoConnectionAfterCancel ==
    [][(scan_cancelled /\ nclients' > nclients) => attempt = 0]_vars

\* C24: a run that is paused and cancelled eventually stops, pause being
\* cleared or not: every pause wait ends when scan_cancelled is set
C24_CancelEndsPausedRun ==
    (scan_paused /\ scan_cancelled) ~> (pc = "exited")

\* the run was cancelled before all characters were attempted and has
\* stopped with pause still set
C24_StoppedWhilePaused ==
    /\ pc = "exited"
    /\ scan_paused
    /\ scan_cancelled
    /\ Len(attempted) < Len(characters)

\* the walk is at the first command of room scan.room
EnteringRoom ==
    \/ pc = "house_nav" /\ scan.step = 1
    \/ /\ pc = "house_look" /\ scan.k = 1
       /\ HouseRooms(username)[scan.room].path = <<>>

\* C25: when the house walk enters a room after a room whose path issued a
\* movement command, the path having failed or not, the last command sent is
\* 'secthome'
C25_HomeBeforeNextRoom ==
    (EnteringRoom /\ scan.room > 1 /\ HouseRooms(username)[scan.room - 1].path # <<>>) =>
        sent[Len(sent)] = <<"secthome">>

\* the records of the items listed by the exams of the keywords
RECURSIVE ContainerRecords(_, _)
ContainerRecords(u, keywords) ==
    IF keywords = <<>> THEN <<>>
    ELSE ItemRecords(u, Head(keywords), Contents(Head(keywords)))
            \o ContainerRecords(u, Tail(keywords))

\* the records of the owner's own items: carried, in containers, equipped
OwnRecords(u) ==
    ItemRecords(u, "inventory", Carried(u))
        \o ContainerRecords(u, DetectedBy[u])
        \o ItemRecords(u, "equipped", Equipped(u))

\* a movement command of a room's path was sent and failed
NavigationFails ==
    pc = "house_nav" /\ pc' # "house_nav_check" /\ Len(sent') > Len(sent)

\* C26: when the navigation to a room fails, the walk goes on with the next
\* room (or ends after the last one) without a command for a container of
\* the failed room, the items collected so far are kept, and the run of
\* scan_character_inventory that completes hands over the owner's own item
\* records and stat record
C26_FailedRoomIsSkipped ==
    /\ [][NavigationFails =>
            /\ scan'.house_items = scan.house_items
            /\ scan'.all_items = scan.all_items
            /\ sent'[Len(sent')][1] # "exam"
            /\ IF scan.room < Len(HouseRooms(username))
               THEN scan'.room = scan.room + 1 /\ pc' \in {"house_nav", "house_look"}
               ELSE pc' = "save"]_vars
    /\ [](pc = "add_data" => scan.all_items = OwnRecords(username))
    /\ [][(pc = "add_data" /\ pc' = "logout_ansi") =>
            /\ StatOf(store'.character_stats, username, 1)
            /\ ItemsOfScan(store'.all_data, username, 1) = OwnRecords(username)]_vars

\* Cc's scan has completed: the path to Vault failed, its chest was not
\* examined, the shelf of Hall was, and its items are in the house items
C26_VaultSkippedHallScanned ==
    /\ pc = "add_data"
    /\ username = Cc
    /\ Has(sent, <<"u">>)
    /\ ~Has(sent, <<"exam", <<"c", "h", "e", "s", "t">>>>)
    /\ Has(sent, <<"exam", <<"s", "h", "e", "l", "f">>>>)
    /\ scan.house_items = ItemRecords(HouseName(Cc), <<"s", "h", "e", "l", "f">>, << <<"r", "o", "p", "e">> >>)
    /\ scan.all_items = OwnRecords(Cc)

\* the positions of scan_character after add_character_data has been called
HandedOver == {"logout_ansi", "logout_quit", "disconnect"}

-----------------------------------------------------------------------------
(* Claims about the parsers and the container lookup (SpecParse) *)

LineParsers == {"parse_item_line", "parse_house_item_line"}

\* n and the key k are equal ignoring case, or one is the other with one
\* leading article in front
SameButArticle(n, k) ==
    \/ Lower(n) = Lower(k)
    \/ \E a \in 1..Len(Articles) :
          \/ Lower(n) = Articles[a] \o Lower(k)
          \/ Lower(k) = Articles[a] \o Lower(n)

\* C13 as stated: for every key k of the table that the item name equals
\* ignoring case, or up to one leading article added or removed, the lookup
\* returns the keyword mapped to k
C13_ArticleTolerantLookup ==
    call.last.fn = "_find_container_mapping" =>
        LET t == call.last.input.container_mappings
        IN \A j \in 1..Len(t) :
              SameButArticle(call.last.input.item_name, t[j].key) =>
                  call.last.result = t[j].keyword

\* C13, amended: the lookup returns the keyword mapped to k when k is the
\* only key of the table that the item name equals ignoring case or up to
\* one leading article
C13_UnambiguousLookup ==
    call.last.fn = "_find_container_mapping" =>
        LET t == call.last.input.container_mappings
            n == call.last.input.item_name
        IN \A j \in 1..Len(t) :
              (/\ SameButArticle(n, t[j].key)
               /\ \A k \in 1..Len(t) : SameButArticle(n, t[k].key) => k = j) =>
                  call.last.result = t[j].keyword

\* 'a large basket' was looked up in {"large basket": "basket"}
C13_BasketFound ==
    /\ call.last.fn = "_find_container_mapping"
    /\ call.last.input.item_name = <<"a", " ", "l", "a", "r", "g", "e", " ", "b", "a", "s", "k", "e", "t">>
    /\ call.last.input.container_mappings = << [key |-> <<"l", "a", "r", "g", "e", " ", "b", "a", "s", "k", "e", "t">>, keyword |-> <<"b", "a", "s", "k", "e", "t">>] >>
    /\ call.last.result = <<"b", "a", "s", "k", "e", "t">>

\* the keys of the table a name collides with: one inside the other, and the
\* key or the name of several words, or the two the same single word
Collisions(t, n) ==
    {j \in 1..Len(t) :
        LET key == Lower(t[j].key)
        IN /\ Contains(n, key) \/ Contains(key, n)
           /\ \/ Len(Words(key)) > 1
              \/ Len(Words(n)) > 1
              \/ key = n}

\* C27: when no key equals the item name ignoring case or up to one leading
\* article, the lookup returns the keyword of a key that has the name inside
\* it or is inside the name, such a key being accepted exactly when the key
\* or the name is of several words or the two are the same single word; with
\* no such key the lookup returns no mapping
C27_SubstringMatchRule ==
    call.last.fn = "_find_container_mapping" =>
        LET t == call.last.input.container_mappings
            n == Strip(Lower(call.last.input.item_name))
        IN (\A j \in 1..Len(t) : ~SameButArticle(call.last.input.item_name, t[j].key)) =>
              IF Collisions(t, n) = {}
              THEN call.last.result = None
              ELSE call.last.result \in {t[j].keyword : j \in Collisions(t, n)}


\* the slots of the records returned by the equipment parser
OccupiedSlots(items) ==
    {SubSeq(items[k].location, 10, Len(items[k].location)) : k \in 1..Len(items)}

\* the names a needs field lists
NeedNames(needs) ==
    IF needs = NoNeeds THEN {}
    ELSE {Strip(part) : part \in {Split(needs, ",")[k] : k \in 1..Len(Split(needs, ","))}}

\* C28: the needs field computed from an equipment block names exactly the
\* known slots that hold no item in the block, by their short names, and no
\* slot that holds an item
C28_NeedsIsComplementOfOccupied ==
    call.last.fn = "parse_equipment_output" =>
        NeedNames(call.last.result.needs) =
            {slot_mapping[slot] : slot \in (DOMAIN slot_mapping) \ OccupiedSlots(call.last.result.items)}

\* the block whose only empty slot is <worn on body> gave "body"
C28_OnlyBodyNeeded ==
    /\ call.last.fn = "parse_equipment_output"
    /\ Len(call.last.result.items) = 20
    /\ call.last.result.needs = <<"b", "o", "d", "y">>

\* the numbers the item lines end with
PositiveCounts == { <<"5">>, <<"1", "2">>, <<"2">> }
Counts == PositiveCounts \cup { <<"0">> }

CountSuffix(d) == <<"(">> \o d \o <<")">>

\* C14: a record parsed from a line that ends with (N), N a positive integer,
\* has quantity N and a name that does not end with (N); a record parsed from
\* a line without a parenthesized number at its end has quantity "1"
C14_TrailingQuantity ==
    (call.last.fn \in LineParsers /\ call.last.result # <<>>) =>
        LET line == call.last.input
            r == call.last.result[1]
        IN /\ \A d \in PositiveCounts :
                 EndsWith(line, CountSuffix(d)) =>
                     r.quantity = d /\ ~EndsWith(r.item_name, CountSuffix(d))
           /\ (\A d \in Counts : ~EndsWith(RStrip(line), CountSuffix(d))) =>
                 r.quantity = <<"1">>

\* 'a sword(12)' was parsed into quantity 12 of 'sword'
C14_TwelveSwords ==
    /\ call.last.fn = "parse_item_line"
    /\ call.last.input = <<"a", " ", "s", "w", "o", "r", "d", "(", "1", "2", ")">>
    /\ call.last.result # <<>>
    /\ call.last.result[1].quantity = <<"1", "2">>
    /\ call.last.result[1].item_name = <<"s", "w", "o", "r", "d">>

\* C15: the line '3 shining rubies (5)' is parsed into a record with
\* quantity '5' and item_name 'shining rubies'
C15_ShiningRubies ==
    (call.last.fn = "parse_item_line" /\ call.last.input = <<"3", " ", "s", "h", "i", "n", "i", "n", "g", " ", "r", "u", "b", "i", "e", "s", " ", "(", "5", ")">>) =>
        /\ call.last.result # <<>>
        /\ call.last.result[1].quantity = <<"5">>
        /\ call.last.result[1].item_name = <<"s", "h", "i", "n", "i", "n", "g", " ", "r", "u", "b", "i", "e", "s">>

\* C16: the room parser of the house scan parses
\* 'Vault:u;n:chest,urn|Hall:start:shelf' into two rooms: the first with the
\* path u then n and the containers chest and urn, the second at the anchor
\* with the container shelf
C16_VaultAndHall ==
    (call.last.fn = "_parse_room_config" /\ call.last.input = <<"V", "a", "u", "l", "t", ":", "u", ";", "n", ":", "c", "h", "e", "s", "t", ",", "u", "r", "n", "|", "H", "a", "l", "l", ":", "s", "t", "a", "r", "t", ":", "s", "h", "e", "l", "f">>) =>
        LET rooms == call.last.result
        IN /\ Len(rooms) = 2
           /\ StrippedNonEmpty(Split(rooms[1].path, ";")) = << <<"u">>, <<"n">> >>
           /\ rooms[1].containers = << <<"c", "h", "e", "s", "t">>, <<"u", "r", "n">> >>
           /\ rooms[2].path = <<>>
           /\ rooms[2].containers = << <<"s", "h", "e", "l", "f">> >>

\* C17: two calls of the same parser on the same text return the same
\* records, equal in every field
C17_SameTextSameRecords ==
    (call.prev.fn = call.last.fn /\ call.prev.input = call.last.input) =>
        call.prev.result = call.last.result

\* the name left of a line: without the number at its end, without one
\* leading article, without the blanks around it
RECURSIVE BareName(_)
BareName(line) ==
    LET t == Strip(line)
        counted == {d \in Counts : EndsWith(t, CountSuffix(d))}
    IN IF counted # {}
       THEN LET d == CHOOSE d \in counted : TRUE
            IN BareName(SubSeq(t, 1, Len(t) - Len(d) - 2) \o <<" ">>)
       ELSE IF \E a \in 1..Len(Articles) : StartsWith(Lower(t), Articles[a])
       THEN LET a == CHOOSE a \in 1..Len(Articles) : StartsWith(Lower(t), Articles[a])
            IN Strip(SubSeq(t, Len(Articles[a]) + 1, Len(t)))
       ELSE t

\* C18: every record of the line parsers has a non-empty item_name, and a
\* line whose name is empty without its number, its article and the blanks
\* around it gives no record
C18_NameNeverEmpty ==
    /\ (call.last.fn \in LineParsers \cup {"parse_inventory_output"}) =>
          \A k \in 1..Len(call.last.result) : call.last.result[k].item_name # <<>>
    /\ (call.last.fn \in LineParsers /\ BareName(call.last.input) = <<>>) =>
          call.last.result = <<>>

\* the line '(12)' gave no record
C18_OnlyNumberDropped ==
    /\ call.last.fn = "parse_item_line"
    /\ call.last.input = <<"(", "1", "2", ")">>
    /\ call.last.result = <<>>

\* C30: for every rooms string, _parse_room_config and parse_rooms return
\* the same sequence of rooms, with the same names, paths and container lists
C30_RoomParsersAgree ==
    (/\ call.prev.fn = "_parse_room_config"
     /\ call.last.fn = "parse_rooms"
     /\ call.prev.input = call.last.input) =>
        call.prev.result = call.last.result

=============================================================================
